---- MODULE Spec2Model ----
(***************************************************************************)
(* Merge-request review orchestration of llm-for-gitlab-code-review:       *)
(* ReviewManager (review_manager.py), the datastore calls of curd.py over  *)
(* the tables of models.py, the file classifier of utils.py, and the       *)
(* GitLab host and the LLM endpoint as collaborators that may raise.       *)
(*                                                                         *)
(* Scheduling is asyncio's: one thread, a coroutine runs without           *)
(* interruption until it awaits something that is not ready.  The only     *)
(* such awaits are asyncio.gather (coordinator), the semaphore acquire     *)
(* when no permit is free, and asyncio.to_thread (the LLM call).  Every    *)
(* action below is one such uninterrupted run.                             *)
(***************************************************************************)
EXTENDS Integers, Sequences, FiniteSets, TLC

VARIABLES
    event,        \* per delivery: merge request and the change set the host returns
    db,           \* datastore: tables review, review_discussion, review_file_record, review_file_llm_message
    host,         \* GitLab: discussions of the merge requests, approvals
    semValue,     \* ReviewManager._semaphore: free permits
    semWaiters,   \* ReviewManager._semaphore: FIFO of blocked tasks
    coord,        \* per delivery: position and bookkeeping of _review_mr_change_files
    tasks,        \* per delivery: the gathered _review_single_file tasks
    faults,       \* number of collaborator failures still to be injected
    hist,         \* history: the last update_or_create_review call, the persistence rounds
                  \* per discussion, the number of datastore calls made from outside
    chat,         \* one call of Service.chat: its arguments, its position in the retry
                  \* loop, and as history the endpoint calls, waits and outcome
    cls,          \* one call of _should_review_file: its argument and its result
    hook          \* per delivery: the request to system_hooks, its response and the
                  \* background tasks it scheduled

\* the state of the components studied apart from the review workflow
aux == <<chat, cls, hook>>

vars == <<event, db, host, semValue, semWaiters, coord, tasks, faults, hist, aux>>

----------------------------------------------------------------------------
(* Bounds *)

\* concurrently processed webhook deliveries
NumEvents == 2
\* merge requests of the (single) project
NumMRs == 2
\* changed files of all ordinary deliveries together
MaxFiles == 3
\* collaborator failures injected in one behaviour
MaxFaults == 1
\* results aggregated by one coordinator, when the results are the input
MaxAggFiles == 4
\* update_or_create_review calls made from outside the workflow
MaxDirectCalls == 2
\* fields in which the gate record of a delivery differs from a passing one
MaxGateDeviations == 2
\* collaborator failures injected in one behaviour of the dispatcher
MaxDispatchFaults == 2
\* largest max_retries a Service is built with
MaxRetries == 4
\* files of a batch that queue behind a full admission gate
MaxQueued == 1

(* Program constants *)

MAX_CONCURRENT_REVIEWS == 10
MaxReviewTasks == 20
ProjectId == 1

Events == 1..NumEvents
MRs == 1..NumMRs

None == "None"
PENDING == "pending"
APPROVED == "approved"
REJECTED == "rejected"
ReviewStatus == {PENDING, APPROVED, REJECTED}

----------------------------------------------------------------------------
(* utils.py: file classifier.  A path is a sequence of characters. *)

SUPPORTED_EXTENSIONS == {
    <<".","c">>, <<".","h">>, <<".","c","p","p">>, <<".","c","c">>,
    <<".","c","x","x">>, <<".","c","+","+">>, <<".","h","p","p">>,
    <<".","h","h">>, <<".","h","x","x">>, <<".","h","+","+">>,
    <<".","c","s">>, <<".","g","o">>, <<".","r","s">>,
    <<".","j","a","v","a">>, <<".","k","t">>, <<".","k","t","s">>,
    <<".","s","w","i","f","t">>, <<".","m">>, <<".","m","m">>,
    <<".","s","t","o","r","y","b","o","a","r","d">>, <<".","x","i","b">>,
    <<".","x","c","a","s","s","e","t","s">>, <<".","e","t","s">>,
    <<".","h","m","l">>, <<".","j","s">>, <<".","m","j","s">>,
    <<".","c","j","s">>, <<".","t","s">>, <<".","j","s","x">>,
    <<".","t","s","x">>, <<".","w","x","m","l">>, <<".","w","x","s">>,
    <<".","a","x","m","l">>, <<".","s","j","s">>, <<".","t","t","m","l">>,
    <<".","k","s","m","l">>, <<".","s","w","a","n">>,
    <<".","d","a","r","t">>, <<".","v","u","e">>, <<".","h","t","m","l">>,
    <<".","h","t","m">>, <<".","c","s","s">>, <<".","s","c","s","s">>,
    <<".","l","e","s","s">>, <<".","p","h","p">>,
    <<".","p","h","t","m","l">>, <<".","p","y">>, <<".","p","y","w">>,
    <<".","p","y","i">>, <<".","r","b">>, <<".","e","r","b">>,
    <<".","r","a","k","e">>, <<".","s","h">>, <<".","b","a","s","h">>,
    <<".","z","s","h">>, <<".","k","s","h">>, <<".","l","u","a">>,
    <<".","j","s","o","n">>, <<".","y","a","m","l">>, <<".","y","m","l">>,
    <<".","x","m","l">>, <<".","m","k">> }

SPECIAL_FILENAMES == { <<"M","a","k","e","f","i","l","e">> }

Upper == <<"A","B","C","D","E","F","G","H","I","J","K","L","M",
           "N","O","P","Q","R","S","T","U","V","W","X","Y","Z">>
LowerOf == <<"a","b","c","d","e","f","g","h","i","j","k","l","m",
             "n","o","p","q","r","s","t","u","v","w","x","y","z">>

\* str.lower() on one character
LowerChar(c) ==
    IF \E k \in 1..26 : Upper[k] = c
    THEN LowerOf[CHOOSE k \in 1..26 : Upper[k] = c]
    ELSE c

\* str.lower()
Lower(s) == [k \in 1..Len(s) |-> LowerChar(s[k])]

\* str.rfind(c): 1-based position of the last c, 0 when absent
RFind(s, c) ==
    LET hits == {k \in 1..Len(s) : s[k] = c}
    IN IF hits = {} THEN 0 ELSE CHOOSE k \in hits : \A j \in hits : j <= k

\* pathlib: PurePath.name, the final path component
PathName(p) == SubSeq(p, RFind(p, "/") + 1, Len(p))

\* pathlib: PurePath.suffix, from the last dot of the name, unless the
\* dot is the first or the last character of the name
PathSuffix(p) ==
    LET name == PathName(p)
        d    == RFind(name, ".")
    IN IF 1 < d /\ d < Len(name) THEN SubSeq(name, d, Len(name)) ELSE <<>>

is_supported_file(file_path) ==
    IF file_path = <<>> THEN FALSE
    ELSE IF file_path \in SPECIAL_FILENAMES THEN TRUE
    ELSE Lower(PathSuffix(file_path)) \in SUPPORTED_EXTENSIONS

\* `new_path or old_path`
FilePath(change) ==
    IF change.new_path # <<>> THEN change.new_path ELSE change.old_path

\* mutant: a renamed file is reviewed whether or not its diff is empty
_should_review_fileRenamed(change) ==
    IF ~is_supported_file(FilePath(change)) THEN FALSE
    ELSE IF change.deleted_file THEN FALSE
    ELSE TRUE

_should_review_file(change) ==
    IF ~is_supported_file(FilePath(change)) THEN FALSE
    ELSE IF change.deleted_file THEN FALSE
    ELSE IF change.renamed_file /\ change.diff = "" THEN FALSE
    ELSE TRUE

\* the order-preserving filter of a sequence
RECURSIVE SelectSeqOf(_, _)
SelectSeqOf(s, keep) ==
    IF s = <<>> THEN <<>>
    ELSE IF keep[1]
         THEN <<Head(s)>> \o SelectSeqOf(Tail(s), Tail(keep))
         ELSE SelectSeqOf(Tail(s), Tail(keep))

\* mutant: every change gets a review task
EligibleChangesAll(change_files) == change_files

\* the changes for which a review task is created
EligibleChanges(change_files) ==
    SelectSeqOf(change_files,
                [k \in 1..Len(change_files) |-> _should_review_file(change_files[k])])

----------------------------------------------------------------------------
(* models.py / curd.py: the datastore.  The review table is the sequence   *)
(* of its rows, the autoincrement id of a row is its index.  The           *)
(* review_discussion table is the set of its rows; a row is identified by  *)
(* its discussion id, which the host hands out uniquely.  The rows of      *)
(* review_file_record and review_file_llm_message are kept per discussion  *)
(* row they reference, in the order of their autoincrement ids.            *)
(* A "world" w carries the datastore (w.db), the host (w.host), the last   *)
(* upsert (w.up), the log of persistence rounds (w.rounds) and the number  *)
(* of failures injected so far (w.nf) through the calls of one             *)
(* uninterrupted run.                                                      *)

EmptyDb == [reviews |-> <<>>, discussions |-> {},
            fileRecords |-> <<>>, llmMessages |-> <<>>]

\* no discussion: the None of get_discussion_id
NoDiscussion == <<>>

\* the function f with the value v at k
Extend(f, k, v) == [x \in DOMAIN f \cup {k} |-> IF x = k THEN v ELSE f[x]]

\* least element of a non-empty set of row ids
MinOf(S) == CHOOSE k \in S : \A j \in S : k <= j

\* session.scalar(select ...): the first matching row id, 0 for None
FirstOf(S) == IF S = {} THEN 0 ELSE MinOf(S)

_get_review_by_project_and_mr(d, project_id, merge_request_id) ==
    FirstOf({k \in 1..Len(d.reviews) :
                /\ d.reviews[k].project_id = project_id
                /\ d.reviews[k].merge_request_id = merge_request_id})

\* _get_review_discussion_id_by_discussion_id returns a row id: whether
\* a review_discussion row carries the discussion id
HasReviewDiscussion(d, discussion_id) ==
    \E r \in d.discussions : r.discussion_id = discussion_id

\* Review.status column default, used when the row is created without a status
StatusOrDefault(status) == IF status = None THEN PENDING ELSE status

\* mutant: a row is inserted without looking for an existing one
UpsertReviewRowsInsert(d, project_id, merge_request_id, status) ==
    Append(d.reviews, [project_id |-> project_id,
                       merge_request_id |-> merge_request_id,
                       status |-> StatusOrDefault(status)])

\* mutant: the status of a row that exists is never overwritten
UpsertReviewRowsKeep(d, project_id, merge_request_id, status) ==
    IF _get_review_by_project_and_mr(d, project_id, merge_request_id) # 0
    THEN d.reviews
    ELSE Append(d.reviews, [project_id |-> project_id,
                            merge_request_id |-> merge_request_id,
                            status |-> StatusOrDefault(status)])

\* the reviews table after update_or_create_review
UpsertReviewRows(d, project_id, merge_request_id, status) ==
    LET review == _get_review_by_project_and_mr(d, project_id, merge_request_id)
    IN IF review # 0
       THEN IF status # None
            THEN [d.reviews EXCEPT ![review].status = status]
            ELSE d.reviews
       ELSE Append(d.reviews, [project_id |-> project_id,
                               merge_request_id |-> merge_request_id,
                               status |-> StatusOrDefault(status)])

\* update_or_create_review, successful call: the world afterwards; the
\* returned id is kept in w.up.id
update_or_create_review(w, project_id, merge_request_id, status) ==
    LET before == _get_review_by_project_and_mr(w.db, project_id, merge_request_id)
        rows   == UpsertReviewRows(w.db, project_id, merge_request_id, status)
        d2     == [w.db EXCEPT !.reviews = rows]
    IN [w EXCEPT !.db = d2,
                 !.up = [project_id |-> project_id,
                         merge_request_id |-> merge_request_id,
                         status |-> status,
                         existed |-> before # 0,
                         prevId |-> before,
                         prevStatus |-> IF before # 0 THEN w.db.reviews[before].status ELSE None,
                         prevLen |-> Len(w.db.reviews),
                         id |-> _get_review_by_project_and_mr(d2, project_id, merge_request_id)]]

\* mutant: the lookup never finds a row
get_discussion_idNone(d, project_id, merge_request_id, file_path) == {NoDiscussion}

\* get_discussion_id: session.scalar over the rows joined to the review of
\* (project, mr) with that file path.  The query has no ORDER BY: with
\* several matching rows any of them may come first.  The set of values
\* the call may return; None without a matching row.
get_discussion_id(d, project_id, merge_request_id, file_path) ==
    LET rows == {r \in d.discussions :
                    /\ r.file_path = file_path
                    /\ r.review_id \in 1..Len(d.reviews)
                    /\ d.reviews[r.review_id].project_id = project_id
                    /\ d.reviews[r.review_id].merge_request_id = merge_request_id}
    IN IF rows = {} THEN {NoDiscussion} ELSE {r.discussion_id : r \in rows}

\* create_review_discussion: raises ValueError without a review row
CanCreateReviewDiscussion(d, project_id, merge_request_id) ==
    _get_review_by_project_and_mr(d, project_id, merge_request_id) # 0

create_review_discussion(d, project_id, merge_request_id, discussion_id, file_path) ==
    [d EXCEPT !.discussions =
                  @ \cup {[review_id |-> _get_review_by_project_and_mr(
                                             d, project_id, merge_request_id),
                           discussion_id |-> discussion_id,
                           file_path |-> file_path]},
              !.fileRecords = Extend(@, discussion_id, <<>>),
              !.llmMessages = Extend(@, discussion_id, <<>>)]

\* keyword parameters of create_review_file_record that **llm_resp must supply
FileRecordParams == {"approved", "score", "issues", "suggestions", "summary"}

\* the call create_review_file_record(discussion_id=..., llm_model=..., **llm_resp)
\* binds its arguments only when the keys of llm_resp are exactly those
\* parameters; otherwise Python raises TypeError before the body runs
FileRecordCallBinds(llm_resp) == llm_resp.keys = FileRecordParams

create_review_file_record(d, discussion_id, llm_resp) ==
    [d EXCEPT !.fileRecords[discussion_id] =
        Append(@, [approved |-> llm_resp.approved, score |-> llm_resp.score])]

create_review_file_llm_message(d, discussion_id, role, content) ==
    [d EXCEPT !.llmMessages[discussion_id] =
        Append(@, [role |-> role, content |-> content])]

\* get_review_file_llm_messages: the messages of the rows joined to the
\* discussion id, ordered by message id
get_review_file_llm_messages(d, discussion_id) ==
    IF HasReviewDiscussion(d, discussion_id) THEN d.llmMessages[discussion_id] ELSE <<>>

----------------------------------------------------------------------------
(* The GitLab host.  host.discussions maps a discussion id to the          *)
(* discussion.  The host assigns every new discussion an id of its own;    *)
(* it is modelled by the pair of the delivery and the task that made the   *)
(* call (task 0: the coordinator).                                         *)

EmptyHost == [discussions |-> <<>>, approved |-> {}]

\* merge_request.discussions.create(data): the id the host assigns
NewDiscussionId(e, i) == <<e, i>>

HostCreateDiscussion(h, discussion_id, mr, kind, file_path) ==
    [h EXCEPT !.discussions =
        Extend(@, discussion_id,
               [mr |-> mr, kind |-> kind, file_path |-> file_path,
                resolved |-> FALSE, notes |-> 1])]

\* discussion_obj.notes.create(...)
HostCreateNote(h, discussion_id) ==
    [h EXCEPT !.discussions[discussion_id].notes = @ + 1]

\* discussion.resolved = True; discussion.save()
HostResolve(h, discussion_id) ==
    [h EXCEPT !.discussions[discussion_id].resolved = TRUE]

\* merge_request.approve()
HostApprove(h, mr) == [h EXCEPT !.approved = @ \cup {mr}]

\* discussion.get('resolved') or any note resolved
HostResolved(h, discussion_id) == h.discussions[discussion_id].resolved

----------------------------------------------------------------------------
(* llm.py / utils.py: the verdict of one LLM call.  Only the flag, the     *)
(* score and the key set of the dict matter to the workflow.  The reply of *)
(* the model is a function of the diff it is shown.                        *)

\* keys of the JSON object the model is asked for
LlmJsonKeys == {"approved", "issues", "suggestions", "score", "summary"}

\* parse_response: {**parsed_data, 'duration': duration}
parse_response(json) == [json EXCEPT !.keys = @ \cup {"duration"}]

\* Service.chat, successful call
LlmChat(change) ==
    parse_response([approved |-> change.diff = "+good",
                    score |-> IF change.diff = "+good" THEN 9 ELSE 3,
                    issues |-> IF change.diff = "+good" THEN 0 ELSE 2,
                    keys |-> LlmJsonKeys])

\* the default rejection of _perform_llm_review when the LLM call raises:
\* one issue, the error message
DefaultVerdict ==
    [approved |-> FALSE, score |-> 0 - 1, issues |-> 1,
     keys |-> {"approved", "issues", "suggestions", "score", "summary"}]

\* get_file_user_prompt(change): the user turn, identified by the diff
UserPrompt(change) == change.diff

\* deserialize_llm_resp(llm_resp): the assistant turn
AssistantTurn(llm_resp) ==
    IF llm_resp.approved THEN "verdict:approved" ELSE "verdict:rejected"

\* mutant: the stored turns are put after the new user turn
LlmMessagesHistoryLast(change, history_msg) ==
    <<[role |-> "system", content |-> "system_prompt"]>>
        \o <<[role |-> "user", content |-> UserPrompt(change)]>>
        \o history_msg

\* the message list of _perform_llm_review
LlmMessages(change, history_msg) ==
    <<[role |-> "system", content |-> "system_prompt"]>>
        \o history_msg
        \o <<[role |-> "user", content |-> UserPrompt(change)]>>

\* no JSON document
NoJson == [approved |-> FALSE, score |-> 0, issues |-> 0, keys |-> {}]

\* no exception
NoError == [type |-> None, text |-> None, retries |-> 0, last |-> None]

\* no call of Service.chat has been made
IdleChat ==
    [pc |-> "idle", messages |-> <<>>, max_retries |-> 0, attempt |-> 0,
     calls |-> 0, replies |-> <<>>, waits |-> <<>>, last_exception |-> None,
     result |-> NoJson, error |-> NoError]

\* no call of _should_review_file has been made
IdleCls ==
    [pc |-> "idle",
     change |-> [old_path |-> <<>>, new_path |-> <<>>, deleted_file |-> FALSE,
                 renamed_file |-> FALSE, diff |-> ""],
     supported |-> FALSE, result |-> FALSE]

\* no request has reached system_hooks
IdleHook == [body |-> None, response |-> None, scheduled |-> 0]

\* the components studied apart from the workflow are at rest
AuxInit ==
    /\ chat = IdleChat
    /\ cls = IdleCls
    /\ hook = [e \in Events |-> IdleHook]

----------------------------------------------------------------------------
(* review_manager.py: the per-file pipeline.  F is the set of call sites   *)
(* whose collaborator raises in this run; Hit counts a failure that was    *)
(* reached.                                                                *)

Hit(w) == [w EXCEPT !.nf = @ + 1]

NoResult == "none"
RTrue == "true"
RFalse == "false"
RException == "exception"
\* mutant: a pipeline that does not return true ends by an exception
ResultOfRaise(b) == IF b THEN RTrue ELSE RException

\* the value a pipeline returns
ResultOf(b) == IF b THEN RTrue ELSE RFalse

\* the three writes of _save_discussion_records, inside its try
SaveWrites(w, F, discussion_id, llm_resp, change) ==
    IF ~FileRecordCallBinds(llm_resp) THEN w
    ELSE IF "file_record" \in F THEN Hit(w)
    ELSE IF ~HasReviewDiscussion(w.db, discussion_id) THEN w
    ELSE LET w1 == [w EXCEPT !.db = create_review_file_record(@, discussion_id, llm_resp)]
         IN IF "msg_user" \in F THEN Hit(w1)
            ELSE LET w2 == [w1 EXCEPT !.db = create_review_file_llm_message(
                                                @, discussion_id, "user", UserPrompt(change))]
                 IN IF "msg_assistant" \in F THEN Hit(w2)
                    ELSE [w2 EXCEPT !.db = create_review_file_llm_message(
                                                @, discussion_id, "assistant", AssistantTurn(llm_resp))]

\* history: the persistence rounds of a discussion so far
RoundsOf(rounds, discussion_id) ==
    IF discussion_id \in DOMAIN rounds THEN rounds[discussion_id]
    ELSE [complete |-> 0, broken |-> 0]

\* _save_discussion_records: every exception is logged and swallowed.  The
\* round is counted as complete when no datastore call of it failed.
_save_discussion_records(w, F, discussion_id, llm_resp, change) ==
    LET w1  == SaveWrites(w, F, discussion_id, llm_resp, change)
        old == RoundsOf(w.rounds, discussion_id)
    IN [w1 EXCEPT !.rounds =
            Extend(@, discussion_id,
                   IF w1.nf = w.nf THEN [old EXCEPT !.complete = @ + 1]
                   ELSE [old EXCEPT !.broken = @ + 1])]

\* _resolve_discussion: every exception is logged and swallowed
_resolve_discussion(w, F, discussion_id) ==
    IF "resolve_get" \in F THEN Hit(w)
    ELSE IF "resolve_save" \in F THEN Hit(w)
    ELSE [w EXCEPT !.host = HostResolve(@, discussion_id)]

\* mutant: a failure of the LLM call is taken for the reply
LlmReviewResultReply(F, change) == LlmChat(change)

\* _perform_llm_review after asyncio.to_thread returned or raised
LlmReviewResult(F, change) ==
    IF "llm" \in F THEN DefaultVerdict ELSE LlmChat(change)

\* _create_new_discussion from the return of the LLM call; new_id is the
\* id the host would assign
_create_new_discussion(w0, F, mr, change, new_id) ==
    LET w         == IF "llm" \in F THEN Hit(w0) ELSE w0
        llm_resp  == LlmReviewResult(F, change)
        file_path == FilePath(change)
    IN IF "disc_create" \in F THEN [w |-> Hit(w), ret |-> FALSE, resolveCalls |-> 0]
       ELSE
       LET discussion_id == new_id
           w1 == [w EXCEPT !.host = HostCreateDiscussion(@, new_id, mr, "file", file_path)]
       IN IF "create_review_discussion" \in F
          THEN [w |-> Hit(w1), ret |-> FALSE, resolveCalls |-> 0]
          ELSE IF ~CanCreateReviewDiscussion(w1.db, ProjectId, mr)
          THEN [w |-> w1, ret |-> FALSE, resolveCalls |-> 0]
          ELSE
          LET w2 == [w1 EXCEPT !.db = create_review_discussion(
                                          @, ProjectId, mr, discussion_id, file_path)]
              w3 == _save_discussion_records(w2, F, discussion_id, llm_resp, change)
              w4 == IF llm_resp.approved THEN _resolve_discussion(w3, F, discussion_id) ELSE w3
          IN [w |-> w4, ret |-> llm_resp.approved,
              resolveCalls |-> IF llm_resp.approved THEN 1 ELSE 0]

\* _update_existing_discussion from the return of the LLM call
UpdateExistingTail(w0, F, discussion_id, change) ==
    LET w        == IF "llm" \in F THEN Hit(w0) ELSE w0
        llm_resp == LlmReviewResult(F, change)
        w1       == _save_discussion_records(w, F, discussion_id, llm_resp, change)
    IN IF "note_create" \in F THEN [w |-> Hit(w1), ret |-> FALSE, resolveCalls |-> 0]
       ELSE
       LET w2 == [w1 EXCEPT !.host = HostCreateNote(@, discussion_id)]
           w3 == IF llm_resp.approved THEN _resolve_discussion(w2, F, discussion_id) ELSE w2
       IN [w |-> w3, ret |-> llm_resp.approved,
           resolveCalls |-> IF llm_resp.approved THEN 1 ELSE 0]

\* history: no verdict was asked for
NoVerdict == [approved |-> FALSE, score |-> 0, issues |-> 0]

\* history: what _perform_llm_review returned
VerdictOf(llm_resp) ==
    [approved |-> llm_resp.approved, score |-> llm_resp.score, issues |-> llm_resp.issues]

\* a task record; llmRaised, verdict, resolveCalls and faulted are history
NewTask(change) ==
    [change |-> change, st |-> "new", kind |-> "none", discussion_id |-> NoDiscussion,
     sent |-> <<>>, result |-> NoResult, faulted |-> FALSE,
     llmRaised |-> FALSE, verdict |-> NoVerdict, resolveCalls |-> 0]

TaskDone(t, b) == [t EXCEPT !.st = "done", !.result = ResultOf(b)]

TaskAwaitLlm(t, kind, discussion_id, history_msg) ==
    [t EXCEPT !.st = "llm", !.kind = kind, !.discussion_id = discussion_id,
              !.sent = LlmMessages(t.change, history_msg)]

\* mutant: a discussion that is found is reviewed again whether or not the
\* host reports it resolved
PipelineHeadNoShortCircuit(w, F, discussion_id, t) ==
    IF "get_discussion_id" \in F THEN [w |-> Hit(w), t |-> TaskDone(t, FALSE)]
    ELSE
       IF discussion_id = NoDiscussion
       THEN [w |-> w, t |-> TaskAwaitLlm(t, "create", NoDiscussion, <<>>)]
       ELSE IF "disc_get" \in F THEN [w |-> Hit(w), t |-> TaskDone(t, FALSE)]
       ELSE IF "get_history" \in F THEN [w |-> Hit(w), t |-> TaskDone(t, FALSE)]
       ELSE [w |-> w,
             t |-> TaskAwaitLlm(t, "update", discussion_id,
                                get_review_file_llm_messages(w.db, discussion_id))]

\* _review_single_file from the admission to the await of the LLM call,
\* or to its return when the LLM is not called; discussion_id is the value
\* get_discussion_id returns
PipelineHead(w, F, discussion_id, t) ==
    IF "get_discussion_id" \in F THEN [w |-> Hit(w), t |-> TaskDone(t, FALSE)]
    ELSE
       IF discussion_id = NoDiscussion
       THEN [w |-> w, t |-> TaskAwaitLlm(t, "create", NoDiscussion, <<>>)]
       ELSE IF "disc_get" \in F THEN [w |-> Hit(w), t |-> TaskDone(t, FALSE)]
       ELSE IF HostResolved(w.host, discussion_id) THEN [w |-> w, t |-> TaskDone(t, TRUE)]
       ELSE IF "get_history" \in F THEN [w |-> Hit(w), t |-> TaskDone(t, FALSE)]
       ELSE [w |-> w,
             t |-> TaskAwaitLlm(t, "update", discussion_id,
                                get_review_file_llm_messages(w.db, discussion_id))]

\* _review_single_file from the return of the LLM call to its own return
PipelineTail(w, F, mr, t, new_id) ==
    LET r == IF t.kind = "update"
             THEN UpdateExistingTail(w, F, t.discussion_id, t.change)
             ELSE _create_new_discussion(w, F, mr, t.change, new_id)
    IN [w |-> r.w,
        t |-> TaskDone([t EXCEPT !.llmRaised = "llm" \in F,
                                 !.verdict = VerdictOf(LlmReviewResult(F, t.change)),
                                 !.resolveCalls = r.resolveCalls],
                       r.ret)]

----------------------------------------------------------------------------
(* review_manager.py: the dispatcher process_merge_request_event.  A       *)
(* delivery carries, next to its merge request and changed files, a gate   *)
(* record: the fields of the payload the dispatcher reads, the bot user    *)
(* the manager resolved at start-up, and what the host answers to the      *)
(* dispatcher's lookups.                                                   *)

BotId == "bot"
OtherUser == "alice"
ReviewActions == {"open", "update", "reopen"}

\* the gate record of a delivery that passes every gate.  reviewer_ids is
\* the key of that name at the top level of the payload, reviewers the list
\* of user objects next to it, attr_reviewer_ids the key reviewer_ids inside
\* object_attributes.
PassingGate(mr) ==
    [object_kind |-> "merge_request", project_id |-> ProjectId, iid |-> mr,
     action |-> "open", project_get |-> "ok", bot |-> BotId,
     reviewer_ids |-> {BotId}, reviewers |-> {}, attr_reviewer_ids |-> {},
     mr_get |-> "ok", state |-> "opened", approvals |-> "not_approved"]

\* not all([project_id, merge_request_iid, action]): an absent id is None,
\* which is as false as the id 0
MissingFields(g) == g.project_id = 0 \/ g.iid = 0 \/ g.action = None

\* _get_project: the project, or None after GitlabGetError or any other
\* exception
_get_project(g) == IF g.project_get = "ok" THEN "project" ELSE None

\* mutant: any listed reviewer makes the bot a reviewer
is_reviewerAnyone(g) == g.reviewer_ids # {} \/ g.reviewers # {}

\* is_reviewer: the bot is named in reviewer_ids or in reviewers
is_reviewer(g) ==
    IF g.bot = None THEN FALSE
    ELSE g.bot \in g.reviewer_ids \/ g.bot \in g.reviewers

\* _should_process_review.  GitlabGetError of the approvals lookup is
\* passed over; any other exception reaches the outer except clause, whose
\* logger.error(..., error=str(e)) call raises TypeError itself.
_should_process_review(g) ==
    IF g.state # "opened" THEN RFalse
    ELSE IF g.approvals = "approved" THEN RFalse
    ELSE IF g.approvals = "error" THEN RException
    ELSE RTrue

\* process_merge_request_event up to _dispatch_action: "rejected" when a
\* gate returns False or an exception is caught, "ignored" when
\* _dispatch_action does nothing, "review" when it calls
\* _review_mr_change_files
Route(g) ==
    IF g.object_kind # "merge_request" THEN "rejected"
    ELSE IF MissingFields(g) THEN "rejected"
    ELSE IF _get_project(g) = None THEN "rejected"
    ELSE IF ~is_reviewer(g) THEN "rejected"
    ELSE IF g.mr_get # "ok" THEN "rejected"
    ELSE IF _should_process_review(g) # RTrue THEN "rejected"
    ELSE IF g.action \in ReviewActions THEN "review"
    ELSE "ignored"

\* the value process_merge_request_event returns without entering the
\* review workflow
ReturnWithoutReview(route) == IF route = "ignored" THEN RTrue ELSE RFalse

\* mutant: an exception leaving _review_mr_change_files is passed on
ReturnAfterDispatchRaise(pc) ==
    IF pc = "done" THEN RTrue ELSE IF pc = "raised" THEN RException ELSE NoResult

\* the value process_merge_request_event returns once
\* _review_mr_change_files has returned (return True) or raised (the except
\* clause: return False)
ReturnAfterDispatch(pc) ==
    IF pc = "done" THEN RTrue
    ELSE IF pc = "raised" THEN RFalse
    ELSE NoResult

----------------------------------------------------------------------------
(* review_manager.py: the coordinator _review_mr_change_files. *)

\* pc: position; branch: the way taken through the dispatcher and the
\* coordinator; ret: the value process_merge_request_event returned; the
\* other fields are history: the statuses written, the LLM calls of the
\* tasks, the calls made, the failures met by the coordinator itself, and
\* the status of the review row when the function returned
IdleCoord ==
    [pc |-> "idle", branch |-> "none", statusWrites |-> <<>>, llmCalls |-> 0,
     notifyCalls |-> 0, approveInvoked |-> FALSE, approveCalls |-> 0,
     faultsHit |-> 0, endStatus |-> None, ret |-> NoResult]

\* Review.status of (project, mr); None without a row
StatusOf(d, project_id, merge_request_id) ==
    LET review == _get_review_by_project_and_mr(d, project_id, merge_request_id)
    IN IF review = 0 THEN None ELSE d.reviews[review].status

\* history: what the coordinator leaves behind when it stops in world w
Leave(c, w, w0, mr) ==
    [c EXCEPT !.faultsHit = @ + (w.nf - w0.nf),
              !.endStatus = IF c.pc \in {"done", "raised"}
                            THEN StatusOf(w.db, ProjectId, mr) ELSE @,
              !.ret = ReturnAfterDispatch(c.pc)]

\* the except clause of _review_mr_change_files: mark the review rejected;
\* a failure of that call leaves the coordinator by an exception
CoordinatorExcept(w, F, mr, c) ==
    IF "upsert_rejected" \in F
    THEN [w |-> Hit(w), c |-> [c EXCEPT !.pc = "raised", !.branch = "failed"], tasks |-> <<>>]
    ELSE [w |-> update_or_create_review(w, ProjectId, mr, REJECTED),
          c |-> [c EXCEPT !.pc = "done", !.branch = "failed",
                          !.statusWrites = Append(@, REJECTED)],
          tasks |-> <<>>]

\* _create_file_limit_notification: every exception is logged and swallowed
_create_file_limit_notification(w, F, mr, new_id) ==
    IF "notify" \in F THEN Hit(w)
    ELSE [w EXCEPT !.host = HostCreateDiscussion(@, new_id, mr, "notification", <<>>)]

\* mutant: the limit is one file too high
TooManyTasksLax(n) == n > MaxReviewTasks + 1

\* mutant: the limit is one file too low
TooManyTasksStrict(n) == n >= MaxReviewTasks

\* the file-count limit: len(review_tasks) > 20
TooManyTasks(n) == n > MaxReviewTasks

\* _review_mr_change_files from its call to the await of asyncio.gather,
\* or to its return when nothing is gathered
CoordinatorHead(w, F, ev, c, new_id) ==
    IF "upsert_pending" \in F THEN CoordinatorExcept(Hit(w), F, ev.mr, c)
    ELSE
    LET w1 == update_or_create_review(w, ProjectId, ev.mr, PENDING)
        c1 == [c EXCEPT !.statusWrites = Append(@, PENDING)]
    IN IF "changes" \in F THEN CoordinatorExcept(Hit(w1), F, ev.mr, c1)
       ELSE IF ev.changes = <<>>
       THEN [w |-> w1, c |-> [c1 EXCEPT !.pc = "done", !.branch = "no_changes"], tasks |-> <<>>]
       ELSE
       LET eligible     == EligibleChanges(ev.changes)
           review_tasks == [k \in 1..Len(eligible) |-> NewTask(eligible[k])]
       IN IF review_tasks = <<>>
          THEN [w |-> w1, c |-> [c1 EXCEPT !.pc = "done", !.branch = "no_review_files"],
                tasks |-> <<>>]
          ELSE IF TooManyTasks(Len(review_tasks))
          THEN [w |-> _create_file_limit_notification(w1, F, ev.mr, new_id),
                c |-> [c1 EXCEPT !.pc = "done", !.branch = "limit", !.notifyCalls = @ + 1],
                tasks |-> <<>>]
          ELSE [w |-> w1, c |-> [c1 EXCEPT !.pc = "gather", !.branch = "reviewed"],
                tasks |-> review_tasks]

\* the results list returned by asyncio.gather(..., return_exceptions=True)
Results(ts) == [k \in 1..Len(ts) |-> ts[k].result]

\* mutant: the gather is abandoned as soon as one task has met a failure
GatherDoneOrFailed(ts) ==
    \/ \A k \in 1..Len(ts) : ts[k].st = "done"
    \/ \E k \in 1..Len(ts) : ts[k].st = "done" /\ ts[k].faulted

\* asyncio.gather returns when every task has finished
GatherDone(ts) == \A k \in 1..Len(ts) : ts[k].st = "done"

\* number of results that are exceptions
error_count(results) ==
    Cardinality({k \in 1..Len(results) : results[k] = RException})

\* mutant: every truthy result counts, an exception object included
approved_countTruthy(results) ==
    Cardinality({k \in 1..Len(results) : results[k] # RFalse})

\* number of results that are not exceptions and are true
approved_count(results) ==
    Cardinality({k \in 1..Len(results) : results[k] = RTrue})

total_reviewed(results) == Len(results) - error_count(results)

\* mutant: one approved file is enough to approve
ShouldApproveSome(results) == approved_count(results) > 0

\* the auto-approve decision
ShouldApprove(results) ==
    approved_count(results) = total_reviewed(results) /\ total_reviewed(results) > 0

\* _approve_merge_request: every exception is logged and swallowed
_approve_merge_request(w, F, mr, c) ==
    LET c1 == [c EXCEPT !.approveInvoked = TRUE]
    IN IF "upsert_approved" \in F THEN [w |-> Hit(w), c |-> c1]
       ELSE
       LET w1 == update_or_create_review(w, ProjectId, mr, APPROVED)
           c2 == [c1 EXCEPT !.statusWrites = Append(@, APPROVED)]
       IN IF "approve" \in F THEN [w |-> Hit(w1), c |-> [c2 EXCEPT !.approveCalls = @ + 1]]
          ELSE [w |-> [w1 EXCEPT !.host = HostApprove(@, mr)],
                c |-> [c2 EXCEPT !.approveCalls = @ + 1]]

\* _review_mr_change_files from the return of asyncio.gather to its return
CoordinatorTail(w, F, mr, c, ts) ==
    LET c1 == [c EXCEPT !.pc = "done"]
    IN IF ShouldApprove(Results(ts))
       THEN _approve_merge_request(w, F, mr, c1)
       ELSE [w |-> w, c |-> c1]

----------------------------------------------------------------------------
(* asyncio.Semaphore of ReviewManager: permits and a FIFO of waiters. *)

\* mutant: the gate closes one permit too late
SemLockedLate(value, waiters) == value < 0

\* Semaphore.locked(): no permit can be taken without waiting
SemLocked(value, waiters) == value = 0 \/ waiters # <<>>

\* mutant: leaving the pipeline does not give the permit back
SemReleaseLeak(value, waiters, ts) ==
    [value |-> value, waiters |-> waiters, tasks |-> ts]

\* mutant: the permit goes back to the counter and no waiter is woken
SemReleaseNoWake(value, waiters, ts) ==
    [value |-> value + 1, waiters |-> waiters, tasks |-> ts]

\* Semaphore.release(): the permit goes to the first waiter, which is then
\* scheduled, or back to the counter
SemRelease(value, waiters, ts) ==
    IF waiters # <<>>
    THEN [value |-> value, waiters |-> Tail(waiters),
          tasks |-> [ts EXCEPT ![Head(waiters)[1]][Head(waiters)[2]].st = "admitted"]]
    ELSE [value |-> value + 1, waiters |-> waiters, tasks |-> ts]

\* tasks that are past the admission gate and have not returned
InFlight(e) == {k \in 1..Len(tasks[e]) : tasks[e][k].st \in {"admitted", "llm"}}

InFlightCount ==
    LET RECURSIVE Sum(_)
        Sum(S) == IF S = {} THEN 0
                  ELSE LET e == CHOOSE x \in S : TRUE
                       IN Cardinality(InFlight(e)) + Sum(S \ {e})
    IN Sum(Events)

----------------------------------------------------------------------------
(* Inputs *)

Change(old_path, new_path, deleted_file, renamed_file, diff) ==
    [old_path |-> old_path, new_path |-> new_path, deleted_file |-> deleted_file,
     renamed_file |-> renamed_file, diff |-> diff]

PathA    == <<"a", ".", "p", "y">>
PathB    == <<"b", ".", "p", "y">>
PathC    == <<"s", "r", "c", "/", "c", ".", "g", "o">>
PathPng  == <<"i", "m", "a", "g", "e", ".", "p", "n", "g">>

\* the changes of an ordinary delivery
SmallChanges ==
    { Change(PathA, PathA, FALSE, FALSE, "+good"),
      Change(PathA, PathA, FALSE, FALSE, "+bad"),
      Change(PathB, PathB, FALSE, FALSE, "+good"),
      Change(PathPng, PathPng, FALSE, FALSE, "+good"),
      Change(PathC, <<>>, TRUE, FALSE, "+bad") }

\* a change set names a file once
DistinctPaths(s) ==
    \A j, k \in 1..Len(s) : j # k => FilePath(s[j]) # FilePath(s[k])

SeqsUpTo(S, n) == UNION {[1..k -> S] : k \in 0..n}

SmallBatches == {s \in SeqsUpTo(SmallChanges, MaxFiles) : DistinctPaths(s)}

\* n reviewable files with distinct names
BigBatch(n) ==
    [k \in 1..n |-> Change(<<LowerOf[k], ".", "p", "y">>, <<LowerOf[k], ".", "p", "y">>,
                           FALSE, FALSE, "+good")]

NoUpsert ==
    [project_id |-> 0, merge_request_id |-> 0, status |-> None, existed |-> FALSE,
     prevId |-> 0, prevStatus |-> None, prevLen |-> 0, id |-> 0]

\* a delivery: the merge request, its changed files, the gate record
Delivery(mr, changes, gate) == [mr |-> mr, changes |-> changes, gate |-> gate]

\* deliveries that pass every gate of the dispatcher
Accepted(evs) ==
    [e \in Events |-> Delivery(evs[e].mr, evs[e].changes, PassingGate(evs[e].mr))]

InitWith(evs, budget) ==
    /\ event = Accepted(evs)
    /\ db = EmptyDb
    /\ host = EmptyHost
    /\ semValue = MAX_CONCURRENT_REVIEWS
    /\ semWaiters = <<>>
    /\ coord = [e \in Events |-> IdleCoord]
    /\ tasks = [e \in Events |-> <<>>]
    /\ faults = budget
    /\ hist = [upsert |-> NoUpsert, rounds |-> <<>>, direct |-> 0]
    /\ AuxInit

\* number of changed files of all deliveries
TotalFiles(evs) ==
    LET RECURSIVE Sum(_)
        Sum(S) == IF S = {} THEN 0
                  ELSE LET e == CHOOSE x \in S : TRUE
                       IN Len(evs[e].changes) + Sum(S \ {e})
    IN Sum(Events)

\* deliveries 1 and 2 carry n1 and n2 reviewable files of merge requests
\* 1 and mr2, further deliveries carry no change
GateEvents(n1, n2, mr2) ==
    [e \in Events |-> IF e = 1 THEN [mr |-> 1, changes |-> BigBatch(n1)]
                      ELSE IF e = 2 THEN [mr |-> mr2, changes |-> BigBatch(n2)]
                      ELSE [mr |-> 1, changes |-> <<>>]]

\* as many files as there are permits in one delivery and one more file in
\* a delivery for another merge request: together one more than the gate
\* admits
InitContended == InitWith(GateEvents(MAX_CONCURRENT_REVIEWS, 1, 2), 0)

\* Ordinary deliveries, the first for merge request 1, with collaborator
\* failures; or deliveries that fill the admission gate
Init ==
    \/ \E evs \in [Events -> [mr : MRs, changes : SmallBatches]] :
          /\ evs[1].mr = 1
          /\ TotalFiles(evs) <= MaxFiles
          /\ InitWith(evs, MaxFaults)
    \/ InitContended

----------------------------------------------------------------------------
(* Actions *)

World == [db |-> db, host |-> host, up |-> hist.upsert, rounds |-> hist.rounds, nf |-> 0]

\* the subsets of S with at most n elements
RECURSIVE SubsetsUpTo(_, _)
SubsetsUpTo(S, n) ==
    IF n = 0 THEN {{}}
    ELSE LET P == SubsetsUpTo(S, n - 1)
         IN P \cup {F \cup {x} : F \in P, x \in S}

\* the sets of call sites that may fail within the remaining budget
FaultSets(sites) == SubsetsUpTo(sites, faults)

\* the world after a run in which exactly the failures of F happened
Commit(w, F) ==
    /\ w.nf = Cardinality(F)
    /\ db' = w.db
    /\ host' = w.host
    /\ hist' = [hist EXCEPT !.upsert = w.up, !.rounds = w.rounds]
    /\ faults' = faults - w.nf

StartSites == {"upsert_pending", "changes", "notify", "upsert_rejected"}
HeadSites == {"get_discussion_id", "disc_get", "get_history"}
TailSites == {"llm", "disc_create", "create_review_discussion", "file_record",
              "msg_user", "msg_assistant", "note_create", "resolve_get", "resolve_save"}
ApproveSites == {"upsert_approved", "approve"}

\* process_merge_request_event runs for a delivery: through the gates and,
\* when they pass, into _review_mr_change_files up to its first await or
\* to its return
Start(e) ==
    /\ coord[e].pc = "idle"
    /\ IF Route(event[e].gate) # "review"
       THEN /\ coord' = [coord EXCEPT ![e].pc = "done",
                                      ![e].branch = Route(event[e].gate),
                                      ![e].ret = ReturnWithoutReview(Route(event[e].gate))]
            /\ UNCHANGED <<db, host, hist, faults, tasks>>
       ELSE \E F \in FaultSets(StartSites) :
              LET r == CoordinatorHead(World, F, event[e], coord[e], NewDiscussionId(e, 0))
              IN /\ Commit(r.w, F)
                 /\ coord' = [coord EXCEPT ![e] = Leave(r.c, r.w, World, event[e].mr)]
                 /\ tasks' = [tasks EXCEPT ![e] = r.tasks]
    /\ UNCHANGED <<event, semValue, semWaiters, aux>>

\* history: the task met a collaborator failure
Faulted(t, w) == [t EXCEPT !.faulted = @ \/ w.nf > 0]

\* a task holding a permit runs the pipeline to the LLM call or to its return;
\* the outcome of the run is bound as a value before the variables are set
RunHead(e, i, value) ==
    \E F \in FaultSets(HeadSites),
       discussion_id \in get_discussion_id(db, ProjectId, event[e].mr,
                                           FilePath(tasks[e][i].change)) :
      \E r \in {PipelineHead(World, F, discussion_id, tasks[e][i])} :
        \E ts \in {[tasks EXCEPT ![e][i] = Faulted(r.t, r.w)]} :
          \E s \in {SemRelease(value, semWaiters, ts)} :
           /\ Commit(r.w, F)
           /\ IF r.t.st = "done"
              THEN /\ semValue' = s.value
                   /\ semWaiters' = s.waiters
                   /\ tasks' = s.tasks
                   /\ coord' = coord
              ELSE /\ semValue' = value
                   /\ semWaiters' = semWaiters
                   /\ tasks' = ts
                   /\ coord' = [coord EXCEPT ![e].llmCalls = @ + 1]

\* a gathered task is run for the first time, in the order of the gather:
\* `async with self._semaphore` takes a permit or blocks
TaskStart(e, i) ==
    /\ coord[e].pc = "gather"
    /\ i \in 1..Len(tasks[e])
    /\ tasks[e][i].st = "new"
    /\ \A j \in 1..(i - 1) : tasks[e][j].st # "new"
    /\ IF SemLocked(semValue, semWaiters)
       THEN /\ semWaiters' = Append(semWaiters, <<e, i>>)
            /\ tasks' = [tasks EXCEPT ![e][i].st = "waiting"]
            /\ UNCHANGED <<db, host, hist, faults, semValue, coord>>
       ELSE RunHead(e, i, semValue - 1)
    /\ UNCHANGED <<event, aux>>

\* a task woken by a release resumes with the permit handed to it
TaskResume(e, i) ==
    /\ i \in 1..Len(tasks[e])
    /\ tasks[e][i].st = "admitted"
    /\ RunHead(e, i, semValue)
    /\ UNCHANGED <<event, aux>>

\* the LLM call of a task returns or raises; the task runs to its return
\* and releases its permit
LlmReturn(e, i) ==
    /\ i \in 1..Len(tasks[e])
    /\ tasks[e][i].st = "llm"
    /\ \E F \in FaultSets(TailSites) :
        \E r \in {PipelineTail(World, F, event[e].mr, tasks[e][i], NewDiscussionId(e, i))} :
         \E s \in {SemRelease(semValue, semWaiters,
                              [tasks EXCEPT ![e][i] = Faulted(r.t, r.w)])} :
            /\ Commit(r.w, F)
            /\ semValue' = s.value
            /\ semWaiters' = s.waiters
            /\ tasks' = s.tasks
    /\ UNCHANGED <<event, coord, aux>>

\* asyncio.gather returns; the coordinator aggregates and decides
Aggregate(e) ==
    /\ coord[e].pc = "gather"
    /\ GatherDone(tasks[e])
    /\ \E F \in FaultSets(ApproveSites) :
         \E r \in {CoordinatorTail(World, F, event[e].mr, coord[e], tasks[e])} :
            /\ Commit(r.w, F)
            /\ coord' = [coord EXCEPT ![e] = Leave(r.c, r.w, World, event[e].mr)]
    /\ UNCHANGED <<event, semValue, semWaiters, tasks, aux>>

Next ==
    \E e \in Events :
        \/ Start(e)
        \/ Aggregate(e)
        \/ \E i \in 1..MaxReviewTasks :
              \/ TaskStart(e, i)
              \/ TaskResume(e, i)
              \/ LlmReturn(e, i)

Spec == Init /\ [][Next]_vars

----------------------------------------------------------------------------
(* The admission gate and the file-count limit: change sets around the     *)
(* two program limits.                                                     *)

EmptyWorld == [db |-> EmptyDb, host |-> EmptyHost, up |-> NoUpsert, rounds |-> <<>>, nf |-> 0]

\* task k of delivery e run alone from its start to its return, without a
\* failure
TaskAlone(s, e, mr, k) ==
    LET found == CHOOSE d \in get_discussion_id(s.w.db, ProjectId, mr,
                                                FilePath(s.tasks[k].change)) : TRUE
        h     == PipelineHead(s.w, {}, found, s.tasks[k])
        r     == IF h.t.st = "llm"
                 THEN PipelineTail(h.w, {}, mr, h.t, NewDiscussionId(e, k))
                 ELSE h
    IN [w |-> r.w,
        c |-> IF h.t.st = "llm" THEN [s.c EXCEPT !.llmCalls = @ + 1] ELSE s.c,
        tasks |-> [s.tasks EXCEPT ![k] = r.t]]

\* tasks k.. of delivery e run one after the other; the state after task k
\* is bound as a value before the next task runs on it
RECURSIVE RunTasksInOrder(_, _, _, _)
RunTasksInOrder(s, e, mr, k) ==
    IF k > Len(s.tasks) THEN s
    ELSE CHOOSE out \in {RunTasksInOrder(n, e, mr, k + 1) : n \in {TaskAlone(s, e, mr, k)}} : TRUE

\* the state in which delivery e, the first ever, has been processed to the
\* end without a failure
DeliveredAlone(e, ev) ==
    LET h == CoordinatorHead(EmptyWorld, {}, ev, IdleCoord, NewDiscussionId(e, 0))
    IN IF h.c.pc # "gather"
       THEN [w |-> h.w, c |-> Leave(h.c, h.w, EmptyWorld, ev.mr), tasks |-> h.tasks]
       ELSE LET r == RunTasksInOrder(h, e, ev.mr, 1)
                a == CoordinatorTail(r.w, {}, ev.mr, r.c, r.tasks)
            IN [w |-> a.w, c |-> Leave(a.c, a.w, EmptyWorld, ev.mr), tasks |-> r.tasks]

\* delivery 1 has been processed alone, the others are still to come
InitRedelivered(evs, budget) ==
    \E r \in {DeliveredAlone(1, evs[1])} :
       /\ event = Accepted(evs)
       /\ db = r.w.db
       /\ host = r.w.host
       /\ semValue = MAX_CONCURRENT_REVIEWS
       /\ semWaiters = <<>>
       /\ coord = [e \in Events |-> IF e = 1 THEN r.c ELSE IdleCoord]
       /\ tasks = [e \in Events |-> IF e = 1 THEN r.tasks ELSE <<>>]
       /\ faults = budget
       /\ hist = [upsert |-> r.w.up, rounds |-> r.w.rounds, direct |-> 0]
       /\ AuxInit

\* (a) the deliveries that fill the admission gate;
\* (b) one file more than the limit, twice;
\* (c) exactly the limit: a merge request whose files have all been
\*     reviewed and approved is delivered again
InitGate ==
    \/ InitContended
    \/ InitWith(GateEvents(MaxReviewTasks + 1, MaxReviewTasks + 1, 1), MaxFaults)
    \/ InitRedelivered(GateEvents(MaxReviewTasks, MaxReviewTasks, 1), MaxFaults)

SpecGate == InitGate /\ [][Next]_vars

----------------------------------------------------------------------------
(* The aggregation of gathered results as a function of the results: the   *)
(* coordinator is about to resume from asyncio.gather with any list of     *)
(* results, exceptions included.                                           *)

AggResults == SeqsUpTo({RTrue, RFalse, RException}, MaxAggFiles) \ {<<>>}

InitAgg ==
    \E results \in AggResults :
        LET evs == GateEvents(Len(results), 0, 1)
            h   == CoordinatorHead(EmptyWorld, {}, evs[1], IdleCoord, NewDiscussionId(1, 0))
        IN /\ event = Accepted(evs)
           /\ db = h.w.db
           /\ host = h.w.host
           /\ semValue = MAX_CONCURRENT_REVIEWS
           /\ semWaiters = <<>>
           /\ coord = [e \in Events |-> IF e = 1 THEN h.c ELSE IdleCoord]
           /\ tasks = [e \in Events |->
                          IF e = 1
                          THEN [k \in 1..Len(results) |->
                                  [h.tasks[k] EXCEPT !.st = "done", !.result = results[k]]]
                          ELSE <<>>]
           /\ faults = MaxFaults
           /\ hist = [upsert |-> h.w.up, rounds |-> <<>>, direct |-> 0]
           /\ AuxInit

NextAgg == \E e \in Events : Aggregate(e)

SpecAgg == InitAgg /\ [][NextAgg]_vars

----------------------------------------------------------------------------
(* The datastore function update_or_create_review called from outside the  *)
(* workflow, with any status or none, while deliveries are processed.      *)

CurdCall ==
    /\ hist.direct < MaxDirectCalls
    /\ \E m \in MRs, status \in ReviewStatus \cup {None} :
         LET w == update_or_create_review(World, ProjectId, m, status)
         IN /\ db' = w.db
            /\ hist' = [hist EXCEPT !.upsert = w.up, !.direct = @ + 1]
    /\ UNCHANGED <<event, host, semValue, semWaiters, coord, tasks, faults, aux>>

\* deliveries for the same merge request, of one file each, no collaborator
\* failure
InitCurd ==
    InitWith([e \in Events |->
                 [mr |-> 1, changes |-> <<Change(PathA, PathA, FALSE, FALSE, "+good")>>]], 0)

\* With one file per delivery there are fewer tasks than permits: no task
\* ever waits at the gate, and TaskResume is never enabled.
NextCurd ==
    \/ CurdCall
    \/ \E e \in Events :
          \/ Start(e)
          \/ Aggregate(e)
          \/ TaskStart(e, 1)
          \/ LlmReturn(e, 1)

SpecCurd == InitCurd /\ [][NextCurd]_vars

----------------------------------------------------------------------------
(* The dispatcher: delivery 1 carries any gate record that differs from a  *)
(* passing one in at most MaxGateDeviations fields, and one file; the      *)
(* other deliveries pass the gates for the same merge request and carry no *)
(* change.                                                                 *)

GateRecords(mr) ==
    [object_kind : {"merge_request", "push"},
     project_id : {ProjectId, 0},
     iid : {mr, 0},
     action : {"open", "update", "reopen", "close", "merge", None},
     project_get : {"ok", "GitlabGetError", "error"},
     bot : {BotId, None},
     reviewer_ids : {{BotId}, {}, {OtherUser}},
     reviewers : {{}, {BotId}},
     attr_reviewer_ids : {{}, {BotId}},
     mr_get : {"ok", "error"},
     state : {"opened", "closed", "merged"},
     approvals : {"not_approved", "approved", "GitlabGetError", "error"}]

\* number of fields in which g differs from the passing gate record
Deviations(g, mr) ==
    Cardinality({f \in DOMAIN g : g[f] # PassingGate(mr)[f]})

InitDispatch ==
    \E g \in GateRecords(1) :
        /\ Deviations(g, 1) <= MaxGateDeviations
        /\ event = [e \in Events |->
                       IF e = 1
                       THEN Delivery(1, <<Change(PathA, PathA, FALSE, FALSE, "+good")>>, g)
                       ELSE Delivery(1, <<>>, PassingGate(1))]
        /\ db = EmptyDb
        /\ host = EmptyHost
        /\ semValue = MAX_CONCURRENT_REVIEWS
        /\ semWaiters = <<>>
        /\ coord = [e \in Events |-> IdleCoord]
        /\ tasks = [e \in Events |-> <<>>]
        /\ faults = MaxDispatchFaults
        /\ hist = [upsert |-> NoUpsert, rounds |-> <<>>, direct |-> 0]
        /\ AuxInit

\* With one file in all there are fewer tasks than permits: no task ever
\* waits at the gate, and TaskResume is never enabled.
NextDispatch ==
    \E e \in Events :
        \/ Start(e)
        \/ Aggregate(e)
        \/ TaskStart(e, 1)
        \/ LlmReturn(e, 1)

SpecDispatch == InitDispatch /\ [][NextDispatch]_vars

----------------------------------------------------------------------------
(* llm.py: Service.chat, one call followed through its retry loop.  The    *)
(* endpoint answers every attempt with one of EndpointReplies.             *)

\* what client.chat.completions.create does in one attempt: it raises, or
\* returns a completion without choices, with an empty content, with a
\* content that holds no JSON object, or with the JSON of a verdict
EndpointReplies ==
    {[kind |-> k, json |-> NoJson] :
         k \in {"api_error", "no_choices", "empty_content", "bad_json"}}
    \cup {[kind |-> "ok", json |-> [approved |-> a, score |-> IF a THEN 9 ELSE 3,
                                    issues |-> IF a THEN 0 ELSE 2,
                                    keys |-> LlmJsonKeys]] : a \in BOOLEAN}

\* the exception one attempt ends with inside the try; None when the
\* attempt returns
AttemptError(reply) ==
    IF reply.kind = "api_error" THEN "APIError"
    ELSE IF reply.kind \in {"no_choices", "empty_content"} THEN "ValueError: llm_empty_response"
    ELSE IF reply.kind = "bad_json" THEN "ValueError: parse_response"
    ELSE None

\* the message lists chat is called with
ChatMessages ==
    {<<>>, LlmMessages(Change(PathA, PathA, FALSE, FALSE, "+good"), <<>>)}

\* mutant: an empty message list is let through
NotMessagesNever(messages) == FALSE

\* `if not messages`
NotMessages(messages) == messages = <<>>

\* mutant: the loop runs once more than max_retries
InRangeInclusive(attempt, max_retries) == attempt <= max_retries

\* `for attempt in range(self.max_retries)`
InRange(attempt, max_retries) == attempt < max_retries

\* mutant: the wait grows by one second per attempt
wait_timeLinear(attempt) == attempt + 1

\* wait_time = 2 ** attempt
wait_time(attempt) == 2 ^ attempt

\* the head of the for loop: the next attempt, or past the loop the final
\* `raise Exception(f"... {self.max_retries} ...: {last_exception}")`
LoopNext(c) ==
    IF InRange(c.attempt, c.max_retries) THEN [c EXCEPT !.pc = "loop"]
    ELSE [c EXCEPT !.pc = "raised",
                   !.error = [type |-> "Exception", text |-> "llm_request_failed",
                              retries |-> c.max_retries, last |-> c.last_exception]]

\* chat is called on a Service built with max_retries
ChatStart ==
    /\ chat.pc = "idle"
    /\ \E messages \in ChatMessages, max_retries \in 0..MaxRetries :
         LET c == [chat EXCEPT !.messages = messages, !.max_retries = max_retries]
         IN chat' = IF NotMessages(messages)
                    THEN [c EXCEPT !.pc = "raised",
                                   !.error = [type |-> "ValueError",
                                              text |-> "llm_empty_messages",
                                              retries |-> 0, last |-> None]]
                    ELSE LoopNext(c)
    /\ UNCHANGED <<event, db, host, semValue, semWaiters, coord, tasks, faults, hist,
                   cls, hook>>

\* one pass of the loop body: the endpoint call, then the return or the
\* except clause with its wait
ChatAttempt ==
    /\ chat.pc = "loop"
    /\ \E reply \in EndpointReplies :
         LET c == [chat EXCEPT !.calls = @ + 1, !.replies = Append(@, reply.kind)]
         IN chat' =
              IF AttemptError(reply) = None
              THEN [c EXCEPT !.pc = "returned", !.result = parse_response(reply.json)]
              ELSE LoopNext([c EXCEPT
                       !.last_exception = AttemptError(reply),
                       !.waits = IF c.attempt < c.max_retries - 1
                                 THEN Append(@, wait_time(c.attempt)) ELSE @,
                       !.attempt = @ + 1])
    /\ UNCHANGED <<event, db, host, semValue, semWaiters, coord, tasks, faults, hist,
                   cls, hook>>

\* the workflow at rest
InitAtRest == InitWith([e \in Events |-> [mr |-> 1, changes |-> <<>>]], 0)

NextChat == ChatStart \/ ChatAttempt

SpecChat == InitAtRest /\ [][NextChat]_vars

----------------------------------------------------------------------------
(* review_manager.py / utils.py: the file classifier applied to one change *)
(* descriptor.                                                             *)

\* paths of change descriptors: none, supported and unsupported suffixes,
\* upper and mixed case, the special file name alone and in a directory,
\* names without suffix
ClassifierPaths ==
    { <<>>,
      <<"T","e","s","t",".","p","y">>,
      <<"T","e","s","t",".","P","Y">>,
      <<"a",".","P","y">>,
      <<"s","r","c","/","c",".","g","o">>,
      <<"i","m","a","g","e",".","p","n","g">>,
      <<"M","a","k","e","f","i","l","e">>,
      <<"s","r","c","/","M","a","k","e","f","i","l","e">>,
      <<"R","E","A","D","M","E">>,
      <<".","p","y">>,
      <<"v",".","1","/","m","a","i","n">> }

\* the change descriptors the host sends
ClassifierChanges ==
    [old_path : ClassifierPaths, new_path : ClassifierPaths,
     deleted_file : BOOLEAN, renamed_file : BOOLEAN, diff : {"", "+good"}]

\* _should_review_file is called on a change descriptor
Classify ==
    /\ cls.pc = "idle"
    /\ \E change \in ClassifierChanges :
         cls' = [pc |-> "done", change |-> change,
                 supported |-> is_supported_file(FilePath(change)),
                 result |-> _should_review_file(change)]
    /\ UNCHANGED <<event, db, host, semValue, semWaiters, coord, tasks, faults, hist,
                   chat, hook>>

NextClassify == Classify

SpecClassify == InitAtRest /\ [][NextClassify]_vars

----------------------------------------------------------------------------
(* main.py: the webhook handler system_hooks in front of the dispatcher.   *)
(* A request carries a body; the body of a delivery is the JSON object     *)
(* whose object_kind the dispatcher reads later.                           *)

\* bodies of a request: a JSON object with object_kind, one without,
\* JSON that is not an object, and bytes that are not JSON
RequestBodies == {"object", "object_without_kind", "array", "unparsable"}

\* event_data.get('object_kind', '')
ObjectKindOf(body, g) == IF body = "object" THEN g.object_kind ELSE ""

\* mutant: every event is queued for review
system_hooksQueueAll(body, g) ==
    IF body \in {"unparsable", "array"} THEN [response |-> "500", scheduled |-> 0]
    ELSE [response |-> "accepted", scheduled |-> 1]

\* system_hooks: the response and the number of background tasks added;
\* request.json() raises on bytes that are not JSON and .get on a body
\* that is not an object, both answered with status 500
system_hooks(body, g) ==
    IF body \in {"unparsable", "array"} THEN [response |-> "500", scheduled |-> 0]
    ELSE IF ObjectKindOf(body, g) = "merge_request"
    THEN [response |-> "accepted", scheduled |-> 1]
    ELSE [response |-> "ignored", scheduled |-> 0]

\* a request arrives and is answered
Receive(e) ==
    /\ hook[e].response = None
    /\ \E body \in RequestBodies :
         LET r == system_hooks(body, event[e].gate)
         IN hook' = [hook EXCEPT ![e] = [body |-> body, response |-> r.response,
                                         scheduled |-> r.scheduled]]
    /\ UNCHANGED <<event, db, host, semValue, semWaiters, coord, tasks, faults, hist,
                   chat, cls>>

\* the background task runs after the response was sent
RunBackground(e) ==
    /\ hook[e].scheduled = 1
    /\ Start(e)

\* With one file in all, no task ever waits at the gate.
NextHook ==
    \E e \in Events :
        \/ Receive(e)
        \/ RunBackground(e)
        \/ Aggregate(e)
        \/ TaskStart(e, 1)
        \/ LlmReturn(e, 1)

SpecHook == InitDispatch /\ [][NextHook]_vars

----------------------------------------------------------------------------
(* Progress of a batch that overfills the admission gate.  The event loop  *)
(* runs every task that is ready, and every collaborator call returns or   *)
(* raises: as long as a step is possible, one is taken.                    *)

\* delivery 1 carries more reviewable files than there are permits and no
\* collaborator fails; or it carries two files, below the capacity of the
\* gate, and collaborators may fail.  The other deliveries carry no change.
InitLive ==
    \/ \E n \in (MAX_CONCURRENT_REVIEWS + 1)..(MAX_CONCURRENT_REVIEWS + MaxQueued) :
          InitWith(GateEvents(n, 0, 1), 0)
    \/ InitWith(GateEvents(2, 0, 1), MaxFaults)

\* a step of a task that is ready, or of a coordinator whose gather is done
Progress ==
    \E e \in Events :
        \/ Aggregate(e)
        \/ \E i \in 1..MaxReviewTasks :
              \/ TaskStart(e, i)
              \/ TaskResume(e, i)
              \/ LlmReturn(e, i)

SpecLive == InitLive /\ [][Next]_vars /\ WF_vars(Progress)

----------------------------------------------------------------------------
(* Properties *)

\* ids of the host discussions created by delivery e
HostDiscussionsOf(e) == {d \in DOMAIN host.discussions : d[1] = e}

\* review_discussion rows created by delivery e
RowsOf(e) == {r \in db.discussions : r.discussion_id[1] = e}

\* the eligible files of delivery e, by the classifier alone
Eligible(e) == {k \in 1..Len(event[e].changes) : _should_review_file(event[e].changes[k])}

\* the coordinator of delivery e has run and none of its own calls failed
Ran(e) == coord[e].pc # "idle" /\ coord[e].branch \notin {"failed", "rejected", "ignored"}

\* C1: at any time at most MAX_CONCURRENT_REVIEWS (10) pipelines of one
\* ReviewManager are past the admission gate and not yet finished, whatever
\* the number of eligible files and of deliveries being processed.
C1_InFlightBounded == InFlightCount <= MAX_CONCURRENT_REVIEWS

\* all permits are taken by tasks of two deliveries and a task is queued
C1_Witness ==
    /\ InFlightCount = MAX_CONCURRENT_REVIEWS
    /\ semWaiters # <<>>
    /\ \A e \in {1, 2} : InFlight(e) # {}

\* the result a pipeline returns when none of its collaborators fails
ExpectedResult(t) ==
    IF t.kind = "none" THEN RTrue ELSE ResultOf(LlmChat(t.change).approved)

\* C2: when the coordinator has gathered a batch, every eligible file has
\* exactly one result, a boolean; every pipeline has run to its end, and a
\* pipeline that met no failure has its own result whatever happened to
\* the others.
C2_FailureIsolation ==
    \A e \in Events :
        (coord[e].pc = "done" /\ coord[e].branch = "reviewed") =>
            /\ Len(Results(tasks[e])) = Cardinality(Eligible(e))
            /\ \A k \in 1..Len(tasks[e]) :
                  /\ tasks[e][k].st = "done"
                  /\ tasks[e][k].result \in {RTrue, RFalse}
                  /\ ~tasks[e][k].faulted => tasks[e][k].result = ExpectedResult(tasks[e][k])

\* a batch in which one pipeline failed and another was approved
C2_Witness ==
    \E e \in Events :
        /\ coord[e].pc = "done"
        /\ \E j, k \in 1..Len(tasks[e]) :
              /\ tasks[e][j].faulted /\ tasks[e][j].result = RFalse
              /\ ~tasks[e][k].faulted /\ tasks[e][k].result = RTrue

\* C3: with E gathered results, X of them exceptions and A of them true,
\* _approve_merge_request is invoked iff E - X > 0 and A = E - X.
C3_Aggregation ==
    \A e \in Events :
        (coord[e].pc = "done" /\ coord[e].branch = "reviewed") =>
            LET E == Len(tasks[e])
                X == Cardinality({k \in 1..Len(tasks[e]) : tasks[e][k].result = RException})
                A == Cardinality({k \in 1..Len(tasks[e]) : tasks[e][k].result = RTrue})
            IN coord[e].approveInvoked <=> (E - X > 0 /\ A = E - X)

\* approval of a batch in which a task failed and the others were approved
C3_Witness ==
    \E e \in Events :
        /\ coord[e].pc = "done"
        /\ coord[e].approveInvoked
        /\ \E j, k \in 1..Len(tasks[e]) :
              tasks[e][j].result = RException /\ tasks[e][k].result = RTrue

\* C4: there is at most one review_discussion row per (review, file path),
\* also when deliveries for the same merge request are interleaved.
C4_OneDiscussionPerFile ==
    \A r1, r2 \in db.discussions :
        (r1.review_id = r2.review_id /\ r1.file_path = r2.file_path) => r1 = r2

\* C5: there is at most one review row per (project id, merge-request id);
\* update_or_create_review for an existing pair returns the id of that row,
\* adds no row and stores the given status, and leaves the stored status
\* as it was when the status is None.
C5_ReviewUnique ==
    /\ \A j, k \in 1..Len(db.reviews) :
          (/\ db.reviews[j].project_id = db.reviews[k].project_id
           /\ db.reviews[j].merge_request_id = db.reviews[k].merge_request_id) => j = k
    /\ hist.upsert.existed =>
          /\ hist.upsert.id = hist.upsert.prevId
          /\ Len(db.reviews) = hist.upsert.prevLen
          /\ db.reviews[hist.upsert.id].status =
                IF hist.upsert.status = None THEN hist.upsert.prevStatus
                ELSE hist.upsert.status

\* a call without a status on a row that two deliveries have written
C5_Witness ==
    /\ hist.upsert.existed
    /\ hist.upsert.status = None
    /\ hist.upsert.prevStatus = APPROVED
    /\ \A e \in {1, 2} : coord[e].pc # "idle" /\ event[e].mr = hist.upsert.merge_request_id

\* C6: after N complete rounds on a discussion its stored messages, in
\* creation order, are 2N in number and alternate user, assistant, ...
C6_TwoMessagesPerRound ==
    \A d \in DOMAIN hist.rounds :
        hist.rounds[d].broken = 0 =>
            LET msgs == get_review_file_llm_messages(db, d)
            IN /\ Len(msgs) = 2 * hist.rounds[d].complete
               /\ \A k \in 1..Len(msgs) :
                     msgs[k].role = IF k % 2 = 1 THEN "user" ELSE "assistant"

\* C7: with more than 20 eligible files the coordinator makes exactly one
\* notification call (one comment, unless that call fails), starts no
\* pipeline, makes no LLM call, creates no discussion row, does not
\* approve, and returns with the review pending.
C7_OverLimit ==
    \A e \in Events :
        (Ran(e) /\ Cardinality(Eligible(e)) > MaxReviewTasks) =>
            /\ coord[e].pc = "done"
            /\ coord[e].branch = "limit"
            /\ coord[e].notifyCalls = 1
            /\ HostDiscussionsOf(e) \subseteq {NewDiscussionId(e, 0)}
            /\ coord[e].faultsHit = 0 =>
                  /\ NewDiscussionId(e, 0) \in DOMAIN host.discussions
                  /\ host.discussions[NewDiscussionId(e, 0)].kind = "notification"
            /\ tasks[e] = <<>>
            /\ coord[e].llmCalls = 0
            /\ RowsOf(e) = {}
            /\ ~coord[e].approveInvoked
            /\ coord[e].approveCalls = 0
            /\ coord[e].statusWrites = <<PENDING>>
            /\ coord[e].endStatus = PENDING

\* 21 eligible files, the notification is posted
C7_Witness ==
    \E e \in Events :
        /\ coord[e].branch = "limit"
        /\ Cardinality(Eligible(e)) = MaxReviewTasks + 1
        /\ NewDiscussionId(e, 0) \in DOMAIN host.discussions

\* C8: with 1 to 20 eligible files a pipeline is created for every eligible
\* file, every pipeline has run when the coordinator returns, and no
\* notification is posted.
C8_WithinLimit ==
    \A e \in Events :
        (Ran(e) /\ Cardinality(Eligible(e)) \in 1..MaxReviewTasks) =>
            /\ coord[e].branch = "reviewed"
            /\ coord[e].notifyCalls = 0
            /\ NewDiscussionId(e, 0) \notin DOMAIN host.discussions
            /\ Len(tasks[e]) = Cardinality(Eligible(e))
            /\ coord[e].pc = "done" => \A k \in 1..Len(tasks[e]) : tasks[e][k].st = "done"

\* a delivery of exactly 20 eligible files whose discussions were all found
\* resolved
C8_Witness ==
    \E e \in Events :
        /\ coord[e].pc = "done"
        /\ Len(tasks[e]) = MaxReviewTasks
        /\ \A k \in 1..Len(tasks[e]) :
              tasks[e][k].st = "done" /\ tasks[e][k].kind = "none"

\* C9: when no changed file is eligible (or there is no changed file), the
\* coordinator returns with the review pending, having started no
\* pipeline, made no LLM call, posted nothing and approved nothing.
C9_NothingToReview ==
    \A e \in Events :
        (Ran(e) /\ Eligible(e) = {}) =>
            /\ coord[e].pc = "done"
            /\ coord[e].branch \in {"no_changes", "no_review_files"}
            /\ coord[e].statusWrites = <<PENDING>>
            /\ coord[e].endStatus = PENDING
            /\ tasks[e] = <<>>
            /\ coord[e].llmCalls = 0
            /\ coord[e].notifyCalls = 0
            /\ HostDiscussionsOf(e) = {}
            /\ ~coord[e].approveInvoked
            /\ coord[e].approveCalls = 0

\* changed files, none of them eligible
C9_Witness ==
    \E e \in Events :
        /\ coord[e].pc = "done"
        /\ coord[e].branch = "no_review_files"
        /\ event[e].changes # <<>>

\* C10: one eligible file without a discussion, LLM verdict approved, no
\* failure anywhere: the run ends with one discussion row, one file
\* record, the two messages user and assistant, the discussion resolved,
\* the merge request approved and the review approved.
C10_NewFileApproved ==
    \A e \in Events :
        (/\ coord[e].pc = "done"
         /\ faults = MaxFaults
         /\ Len(tasks[e]) = 1
         /\ tasks[e][1].kind = "create"
         /\ tasks[e][1].change.diff = "+good") =>
            LET d == NewDiscussionId(e, 1)
            IN /\ Cardinality(RowsOf(e)) = 1
               /\ HasReviewDiscussion(db, d)
               /\ Len(db.fileRecords[d]) = 1
               /\ [k \in 1..Len(db.llmMessages[d]) |-> db.llmMessages[d][k].role]
                      = <<"user", "assistant">>
               /\ host.discussions[d].resolved
               /\ event[e].mr \in host.approved
               /\ coord[e].endStatus = APPROVED

\* C11: a pipeline that starts on a file whose discussion row exists and
\* whose host discussion is resolved, and meets no failure, returns true at
\* once: no LLM call, nothing written to the datastore, nothing posted on
\* the host.
C11_ResolvedShortCircuit ==
    [][\A e \in Events : \A i \in 1..Len(tasks[e]) :
          LET ids == get_discussion_id(db, ProjectId, event[e].mr,
                                       FilePath(tasks[e][i].change))
          IN (/\ tasks[e][i].st \in {"new", "admitted"}
              /\ tasks'[e][i].st \notin {"new", "admitted", "waiting"}
              /\ faults' = faults
              /\ NoDiscussion \notin ids
              /\ \A d \in ids : host.discussions[d].resolved)
             => /\ tasks'[e][i].st = "done"
                /\ tasks'[e][i].result = RTrue
                /\ tasks'[e][i].sent = <<>>
                /\ coord'[e].llmCalls = coord[e].llmCalls
                /\ db' = db
                /\ host' = host]_vars

\* a re-delivered file whose discussion was resolved by an earlier delivery
\* has been passed over
C11_Witness ==
    \E e \in Events : \E i \in 1..Len(tasks[e]) :
        /\ tasks[e][i].st = "done"
        /\ tasks[e][i].kind = "none"
        /\ ~tasks[e][i].faulted
        /\ tasks[e][i].result = RTrue
        /\ \E r \in db.discussions :
              /\ r.file_path = FilePath(tasks[e][i].change)
              /\ r.discussion_id[1] # e
              /\ host.discussions[r.discussion_id].resolved

\* C12: in a gathered batch where the host's discussion creation raised in
\* one pipeline and every other pipeline returned true, the failing file is
\* counted as an error and left out of the total, so that the others alone
\* decide and the merge request is auto-approved.
C12_ErrorExcluded ==
    \A e \in Events :
        (/\ coord[e].pc = "done"
         /\ coord[e].branch = "reviewed"
         /\ \E k \in 1..Len(tasks[e]) :
               /\ tasks[e][k].faulted
               /\ tasks[e][k].kind = "create"
               /\ NewDiscussionId(e, k) \notin DOMAIN host.discussions
               /\ \E j \in 1..Len(tasks[e]) : j # k
               /\ \A j \in 1..Len(tasks[e]) :
                     j # k => tasks[e][j].result = RTrue /\ ~tasks[e][j].faulted)
        => /\ error_count(Results(tasks[e])) = 1
           /\ total_reviewed(Results(tasks[e])) = Len(tasks[e]) - 1
           /\ approved_count(Results(tasks[e])) = Len(tasks[e]) - 1
           /\ coord[e].approveInvoked

\* C13: a pipeline whose LLM call raised works with the default verdict
\* (not approved, score -1, the error as its single issue), returns false
\* rather than an exception, and its run does not approve the merge request.
C13_LlmFailureRejects ==
    \A e \in Events : \A k \in 1..Len(tasks[e]) :
        (tasks[e][k].st = "done" /\ tasks[e][k].llmRaised)
        => /\ tasks[e][k].verdict = [approved |-> FALSE, score |-> 0 - 1, issues |-> 1]
           /\ tasks[e][k].result = RFalse
           /\ tasks[e][k].resolveCalls = 0
           /\ approved_count(Results(tasks[e])) < Len(tasks[e])
           /\ ~coord[e].approveInvoked

\* the LLM call raised for a file the LLM would have approved, and the run
\* has returned
C13_Witness ==
    \E e \in Events : \E k \in 1..Len(tasks[e]) :
        /\ coord[e].pc = "done"
        /\ tasks[e][k].st = "done"
        /\ tasks[e][k].llmRaised
        /\ tasks[e][k].change.diff = "+good"

\* C14: a finished pipeline has a boolean result, never an exception, and
\* a pipeline in which a call to the host, the LLM or the datastore raised
\* has the result false.
C14_FailureGivesFalse ==
    \A e \in Events : \A k \in 1..Len(tasks[e]) :
        tasks[e][k].st = "done"
        => /\ tasks[e][k].result \in {RTrue, RFalse}
           /\ tasks[e][k].faulted => tasks[e][k].result = RFalse

\* C15: whatever calls to the datastore and the host fail, the upsert that
\* marks the review rejected included, _review_mr_change_files returns
\* normally and never leaves by an exception.
C15_CoordinatorNeverRaises ==
    \A e \in Events : coord[e].pc # "raised"

\* C16: when the initial upsert to pending or the fetch of the changed
\* files raises, the run ends with the review row in status rejected, no
\* pipeline was invoked and no approve step was taken.
C16_StepFailureRejects ==
    \A e \in Events :
        coord[e].branch = "failed"
        => /\ coord[e].endStatus = REJECTED
           /\ tasks[e] = <<>>
           /\ coord[e].llmCalls = 0
           /\ ~coord[e].approveInvoked
           /\ coord[e].approveCalls = 0

\* no other delivery for the same merge request has taken the approve step
\* or written a status other than pending
OthersLeftPending(e) ==
    \A e2 \in Events \ {e} :
        event[e2].mr = event[e].mr
        => /\ ~coord[e2].approveInvoked
           /\ \A n \in 1..Len(coord[e2].statusWrites) : coord[e2].statusWrites[n] = PENDING

\* C17: when a file of a batch got a verdict that is not approved, its
\* pipeline made no resolve call and returned false, and its run neither
\* takes the approve step nor writes any status but pending: unless another
\* delivery for the merge request approved it or failed as a whole, it is
\* not approved on the host and the review is pending when the run returns.
C17_RejectedFile ==
    \A e \in Events : \A k \in 1..Len(tasks[e]) :
        (/\ tasks[e][k].st = "done"
         /\ tasks[e][k].kind \in {"create", "update"}
         /\ ~tasks[e][k].verdict.approved)
        => /\ tasks[e][k].resolveCalls = 0
           /\ tasks[e][k].result = RFalse
           /\ ~coord[e].approveInvoked
           /\ coord[e].approveCalls = 0
           /\ coord[e].statusWrites = <<PENDING>>
           /\ OthersLeftPending(e)
                => /\ event[e].mr \notin host.approved
                   /\ coord[e].pc = "done" => coord[e].endStatus = PENDING

\* a run has returned in which the LLM rejected a new file, whose
\* discussion stands unresolved on the host, and approved another
C17_Witness ==
    \E e \in Events : \E k, j \in 1..Len(tasks[e]) :
        /\ coord[e].pc = "done"
        /\ tasks[e][k].kind = "create"
        /\ ~tasks[e][k].verdict.approved
        /\ ~tasks[e][k].llmRaised
        /\ NewDiscussionId(e, k) \in DOMAIN host.discussions
        /\ ~host.discussions[NewDiscussionId(e, k)].resolved
        /\ tasks[e][j].result = RTrue
        /\ coord[e].endStatus = PENDING
        /\ OthersLeftPending(e)

\* a delivery passes the checks of the dispatcher that come before the
\* action is looked at
GatesPass(g) ==
    /\ g.object_kind = "merge_request"
    /\ g.project_id # 0 /\ g.iid # 0 /\ g.action # None
    /\ g.project_get = "ok"
    /\ g.bot # None /\ g.bot \in g.reviewer_ids \cup g.reviewers
    /\ g.mr_get = "ok"
    /\ g.state = "opened"
    /\ g.approvals \in {"not_approved", "GitlabGetError"}

\* process_merge_request_event has returned for delivery e
Returned(e) == coord[e].pc \in {"done", "raised"}

Entered(e) == coord[e].branch \notin {"none", "rejected", "ignored"}

\* C19: the workflow is entered only for a merge_request delivery with its
\* required fields, a project that resolves, the bot among the reviewers, a
\* merge request that is opened and not known to be approved, and an action
\* among open, update and reopen; a delivery that fails one of these
\* returns without a status upsert, an LLM call or a write on the host.
C19_GatedEntry ==
    \A e \in Events :
        LET g    == event[e].gate
            pass == GatesPass(g) /\ g.action \in {"open", "update", "reopen"}
        IN /\ Entered(e) => pass
           /\ (Returned(e) /\ ~pass)
              => /\ coord[e].statusWrites = <<>>
                 /\ coord[e].llmCalls = 0
                 /\ coord[e].notifyCalls = 0
                 /\ coord[e].approveCalls = 0
                 /\ ~coord[e].approveInvoked
                 /\ coord[e].faultsHit = 0
                 /\ tasks[e] = <<>>
                 /\ HostDiscussionsOf(e) = {}
                 /\ RowsOf(e) = {}

\* a delivery in which the bot is not a reviewer has returned, and another
\* delivery has entered the workflow
C19_Witness ==
    \E e, e2 \in Events :
        /\ Returned(e)
        /\ event[e].gate.reviewer_ids = {OtherUser}
        /\ event[e].gate.reviewers = {}
        /\ event[e].gate.action = "open"
        /\ Entered(e2)
        /\ coord[e2].statusWrites # <<>>

\* C20: when no call of the workflow fails, process_merge_request_event
\* returns true exactly when it called the review workflow; for an action
\* other than open, update and reopen no review is started and the result
\* is false.
C20_TrueIffReviewed ==
    \A e \in Events :
        (Returned(e) /\ coord[e].faultsHit = 0)
        => /\ coord[e].ret = RTrue <=> Entered(e)
           /\ event[e].gate.action \notin {"open", "update", "reopen"}
                => ~Entered(e) /\ coord[e].ret = RFalse

\* C21: an opened merge request whose approvals lookup fails, with
\* whatever error, is processed; the approval check rejects only an
\* approval status that was obtained and says approved.
C21_FailOpen ==
    \A e \in Events :
        LET g == event[e].gate
        IN (/\ Returned(e)
            /\ GatesPass([g EXCEPT !.approvals = "not_approved"])
            /\ g.action \in {"open", "update", "reopen"}
            /\ g.approvals # "approved")
           => Entered(e)

\* the attempts made so far that failed
FailedAttempts == {k \in 1..Len(chat.replies) : chat.replies[k] # "ok"}

RECURSIVE Pow2(_)
Pow2(n) == IF n = 0 THEN 1 ELSE 2 * Pow2(n - 1)

\* C23: the k-th failed attempt is followed by a wait of 2^(k-1) seconds
\* unless it was the last allowed attempt, after which there is no wait;
\* with max_retries = 3 and three failures the waits are 1, 2.
C23_Backoff ==
    (chat.messages # <<>> /\ chat.max_retries >= 1)
    => /\ Len(chat.waits) =
            IF Cardinality(FailedAttempts) < chat.max_retries
            THEN Cardinality(FailedAttempts) ELSE chat.max_retries - 1
       /\ \A k \in 1..Len(chat.waits) : chat.waits[k] = Pow2(k - 1)
       /\ (chat.pc = "raised" /\ chat.max_retries = 3) => chat.waits = <<1, 2>>

\* four attempts failed: three waits were made and none after the last
C23_Witness ==
    /\ chat.pc = "raised"
    /\ chat.max_retries = 4
    /\ chat.waits = <<1, 2, 4>>

\* C24: chat called with an empty message list raises at once: no endpoint
\* call, no attempt, no wait.
C24_EmptyMessages ==
    (chat.pc # "idle" /\ chat.messages = <<>>)
    => /\ chat.pc = "raised"
       /\ chat.error.type = "ValueError"
       /\ chat.calls = 0
       /\ chat.attempt = 0
       /\ chat.replies = <<>>
       /\ chat.waits = <<>>

\* a Service that would retry was called with an empty message list
C24_Witness ==
    /\ chat.pc = "raised"
    /\ chat.messages = <<>>
    /\ chat.max_retries = 3

\* C25: a change descriptor is to be reviewed exactly when its effective
\* path, the new path or without one the old path, is supported, the file
\* is not deleted, and it is not renamed with an empty diff.
C25_Classifier ==
    cls.pc = "done"
    => LET c         == cls.change
           effective == IF c.new_path # <<>> THEN c.new_path ELSE c.old_path
       IN /\ cls.supported = is_supported_file(effective)
          /\ cls.result = (/\ cls.supported
                           /\ ~c.deleted_file
                           /\ ~(c.renamed_file /\ c.diff = ""))
          /\ c.deleted_file => ~cls.result
          /\ (c.renamed_file /\ c.diff = "") => ~cls.result

\* a supported file renamed without a change of content was classified,
\* its new path taking precedence over an unsupported old path
C25_Witness ==
    /\ cls.pc = "done"
    /\ cls.change.new_path = <<"T","e","s","t",".","p","y">>
    /\ cls.change.old_path = <<"i","m","a","g","e",".","p","n","g">>
    /\ cls.change.renamed_file
    /\ ~cls.change.deleted_file
    /\ cls.change.diff = ""
    /\ ~cls.result

\* C26: a path whose suffix is allow-listed only after lower-casing, such
\* as Test.PY, is not supported, while Test.py is.
C26_CaseSensitive ==
    cls.pc = "done"
    => LET c      == cls.change
           suffix == PathSuffix(c.new_path)
       IN /\ (c.new_path # <<>> /\ suffix \in SUPPORTED_EXTENSIONS) => cls.supported
          /\ (/\ c.new_path # <<>>
              /\ suffix \notin SUPPORTED_EXTENSIONS
              /\ Lower(suffix) \in SUPPORTED_EXTENSIONS) => ~cls.supported

\* C27: a request whose body is an event is answered once, before any
\* processing of it has begun and without a change to the review state:
\* accepted with exactly one background task when its object_kind is
\* merge_request, ignored with none otherwise; the answer and the number of
\* tasks never change afterwards, whatever the review does.
C27_Acknowledge ==
    [][\A e \in Events :
          /\ hook[e].response # None => hook'[e] = hook[e]
          /\ hook'[e] # hook[e]
               => /\ coord[e].pc = "idle"
                  /\ <<db, host, coord, tasks>>' = <<db, host, coord, tasks>>
                  /\ hook'[e].body \in {"object", "object_without_kind"}
                       => IF /\ hook'[e].body = "object"
                             /\ event[e].gate.object_kind = "merge_request"
                          THEN hook'[e].response = "accepted" /\ hook'[e].scheduled = 1
                          ELSE hook'[e].response = "ignored" /\ hook'[e].scheduled = 0
          /\ coord'[e].pc # "idle" => hook'[e].scheduled = 1]_vars

\* one delivery was accepted and its processing has ended in a rejection,
\* another was ignored
C27_Witness ==
    \E e, e2 \in Events :
        /\ hook[e].response = "accepted"
        /\ Returned(e)
        /\ coord[e].ret = RFalse
        /\ hook[e2].response = "ignored"
        /\ hook[e2].body = "object"

\* C28: the only discussions a run leaves on the merge request because of
\* a failure are batch-size notifications; a pipeline whose LLM call
\* failed has created no discussion from the default verdict, whose single
\* issue is the description of the failure.
C28_NoFailureComment ==
    \A e \in Events : \A k \in 1..Len(tasks[e]) :
        (/\ tasks[e][k].st = "done"
         /\ tasks[e][k].llmRaised
         /\ tasks[e][k].kind = "create")
        => NewDiscussionId(e, k) \notin DOMAIN host.discussions

\* C29: a pipeline returns true, and its file counts as approved, only if
\* the verdict was persisted: its discussion has a file record and the user
\* and assistant messages of the round.
C29_PersistedOrFalse ==
    \A e \in Events : \A k \in 1..Len(tasks[e]) :
        (/\ tasks[e][k].st = "done"
         /\ tasks[e][k].kind = "create"
         /\ tasks[e][k].result = RTrue)
        => /\ NewDiscussionId(e, k) \in DOMAIN db.fileRecords
           /\ db.fileRecords[NewDiscussionId(e, k)] # <<>>
           /\ Len(db.llmMessages[NewDiscussionId(e, k)]) >= 2

\* the Discussion rows stored for the file of task k of delivery e
RowsFor(e, k) ==
    {r \in db.discussions :
        /\ r.file_path = FilePath(tasks[e][k].change)
        /\ db.reviews[r.review_id].project_id = ProjectId
        /\ db.reviews[r.review_id].merge_request_id = event[e].mr}

\* C30: a pipeline that finds a Discussion row for its file when it starts
\* takes the update path with the discussion id of that row, and creates
\* neither a host discussion nor a row then or later; when it comes back
\* from the LLM and no call fails it posts one note on that discussion.
C30_DiscussionReuse ==
    [][\A e \in Events : \A k \in 1..Len(tasks[e]) :
          /\ (/\ tasks[e][k].st \in {"new", "admitted"}
              /\ tasks'[e][k].st \in {"llm", "done"}
              /\ RowsFor(e, k) # {})
             => /\ tasks'[e][k].kind # "create"
                /\ tasks'[e][k].st = "llm"
                     => /\ tasks'[e][k].kind = "update"
                        /\ tasks'[e][k].discussion_id
                              \in {r.discussion_id : r \in RowsFor(e, k)}
                /\ host' = host
                /\ db' = db
          /\ (/\ tasks[e][k].st = "llm"
              /\ tasks[e][k].kind = "update"
              /\ tasks'[e][k].st = "done")
             => /\ DOMAIN host'.discussions = DOMAIN host.discussions
                /\ db'.discussions = db.discussions
                /\ host'.discussions[tasks[e][k].discussion_id].notes
                      <= host.discussions[tasks[e][k].discussion_id].notes + 1
                /\ faults' = faults
                     => host'.discussions[tasks[e][k].discussion_id].notes
                          = host.discussions[tasks[e][k].discussion_id].notes + 1]_vars

\* a second delivery has reviewed, on the update path, a file whose
\* discussion an earlier delivery created: one discussion, one row, two notes
C30_Witness ==
    \E e, e1 \in Events : \E k \in 1..Len(tasks[e]) :
        /\ e1 # e
        /\ coord[e].pc = "done"
        /\ coord[e1].pc = "done"
        /\ tasks[e][k].kind = "update"
        /\ tasks[e][k].st = "done"
        /\ tasks[e][k].discussion_id[1] = e1
        /\ host.discussions[tasks[e][k].discussion_id].notes = 2
        /\ Cardinality(DOMAIN host.discussions) = 1
        /\ Cardinality(db.discussions) = 1

\* C31: every call to the host, the LLM or the datastore is a suspension
\* point: an uninterrupted run of a task holds at most one such call, so no
\* step writes to both the datastore and the host; the classification of a
\* batch and the aggregation of its results are each done within one step.
C31_YieldAtEveryCall ==
    [][/\ ~(db' # db /\ host' # host)
       /\ \A e \in Events :
             /\ (coord[e].pc = "idle" /\ coord'[e].pc = "gather")
                  => Len(tasks'[e]) = Cardinality(Eligible(e))
             /\ (coord[e].pc = "gather" /\ coord'[e].pc # "gather")
                  => /\ coord'[e].pc = "done"
                     /\ coord'[e].approveInvoked = ShouldApprove(Results(tasks[e]))]_vars

\* C32: a run upserts the review to pending before anything else: it enters
\* the gather with pending as its only status write and as the stored
\* status, whatever an earlier delivery left there; no changed file is
\* classified, no pipeline exists, no LLM call and no host write is made
\* without that write; and while the run is gathering the stored status
\* stays pending unless another delivery for the merge request writes one.
C32_PendingFirst ==
    [][\A e \in Events :
          /\ (coord[e].pc = "idle" /\ coord'[e].pc = "gather")
               => /\ coord'[e].statusWrites = <<PENDING>>
                  /\ StatusOf(db', ProjectId, event[e].mr) = PENDING
          /\ (\/ coord'[e].branch \in {"no_changes", "no_review_files", "limit", "reviewed"}
              \/ tasks'[e] # <<>>
              \/ coord'[e].llmCalls > 0
              \/ \E d \in DOMAIN host'.discussions : d[1] = e)
               => /\ coord'[e].statusWrites # <<>>
                  /\ coord'[e].statusWrites[1] = PENDING
          /\ (/\ coord[e].pc = "gather"
              /\ coord'[e].pc = "gather"
              /\ StatusOf(db, ProjectId, event[e].mr) = PENDING
              /\ StatusOf(db', ProjectId, event[e].mr) # PENDING)
               => \E e2 \in Events \ {e} :
                     /\ event[e2].mr = event[e].mr
                     /\ coord'[e2].statusWrites # coord[e2].statusWrites]_vars

\* a pipeline of a run is waiting for the LLM with the review pending, after
\* an earlier delivery for the same merge request had approved it
C32_Witness ==
    \E e, e1 \in Events : \E k \in 1..Len(tasks[e]) :
        /\ e1 # e
        /\ event[e1].mr = event[e].mr
        /\ coord[e1].pc = "done"
        /\ coord[e1].statusWrites = <<PENDING, APPROVED>>
        /\ coord[e].pc = "gather"
        /\ tasks[e][k].st = "llm"
        /\ StatusOf(db, ProjectId, event[e].mr) = PENDING

\* C33: in a batch of more files than permits every file that queues
\* behind the gate is eventually admitted; and whenever a run is gathering,
\* eventually every pipeline has finished, no file is left waiting, and the
\* coordinator has aggregated and returned.  Delivery 1 carries the batch.
C33_GateLiveness ==
    /\ \A i \in (MAX_CONCURRENT_REVIEWS + 1)..(MAX_CONCURRENT_REVIEWS + MaxQueued) :
          (i <= Len(tasks[1]) /\ tasks[1][i].st = "waiting")
             ~> (i <= Len(tasks[1]) /\ tasks[1][i].st = "admitted")
    /\ (\E e \in Events : coord[e].pc = "gather")
          ~> (\A e \in Events :
                 /\ coord[e].pc # "gather"
                 /\ coord[e].branch = "reviewed"
                      => /\ coord[e].pc = "done"
                         /\ GatherDone(tasks[e])
                         /\ Len(tasks[e]) = Len(event[e].changes)
                 /\ semWaiters = <<>>)

\* every permit is taken, a file waits behind the gate
C33_Witness ==
    \E e \in Events :
        /\ Len(tasks[e]) \in (MAX_CONCURRENT_REVIEWS + 1)..MaxReviewTasks
        /\ semValue = 0
        /\ \E i \in 1..Len(tasks[e]) : tasks[e][i].st = "waiting"

\* C34: the free permits and the pipelines that hold one always add up to
\* MAX_CONCURRENT_REVIEWS (10): a permit is taken when a pipeline is
\* admitted and given back when it ends, however it ends; the counter is
\* never negative, and with no pipeline in flight all 10 permits are free.
C34_NoPermitLeak ==
    /\ semValue \in 0..MAX_CONCURRENT_REVIEWS
    /\ semValue + InFlightCount = MAX_CONCURRENT_REVIEWS
    /\ InFlightCount = 0 => semValue = MAX_CONCURRENT_REVIEWS /\ semWaiters = <<>>
    /\ \A k \in 1..Len(semWaiters) :
          tasks[semWaiters[k][1]][semWaiters[k][2]].st = "waiting"

\* pipelines have ended by a failure, by a rejection and by an approval,
\* and every permit is free again
C34_Witness ==
    /\ InFlightCount = 0
    /\ semValue = MAX_CONCURRENT_REVIEWS
    /\ \E e \in Events : \E i, j, k \in 1..Len(tasks[e]) :
          /\ tasks[e][i].st = "done" /\ tasks[e][i].faulted
          /\ tasks[e][j].st = "done" /\ ~tasks[e][j].faulted /\ tasks[e][j].result = RFalse
          /\ tasks[e][k].st = "done" /\ tasks[e][k].result = RTrue

\* C35: the list a pipeline sends to the LLM is the system prompt, then the
\* stored turns, then the new user turn built from the diff: on the create
\* path two messages; on the update path the messages stored for the
\* discussion at that moment, in the order of their creation, in between.
C35_MessageList ==
    [][\A e \in Events : \A k \in 1..Len(tasks[e]) :
          (tasks[e][k].st # "llm" /\ tasks'[e][k].st = "llm")
          => LET t    == tasks'[e][k]
                 n    == Len(t.sent)
                 past == IF t.kind = "create" THEN <<>>
                         ELSE db.llmMessages[t.discussion_id]
             IN /\ t.kind \in {"create", "update"}
                /\ n = Len(past) + 2
                /\ t.sent[1].role = "system"
                /\ t.sent[n] = [role |-> "user", content |-> t.change.diff]
                /\ \A j \in 1..Len(past) : t.sent[j + 1] = past[j]
                /\ t.kind = "create" => n = 2
                /\ db' = db]_vars

\* a pipeline on the update path has sent the two turns stored by an
\* earlier round between the system prompt and its new user turn
C35_Witness ==
    \E e \in Events : \E k \in 1..Len(tasks[e]) :
        /\ tasks[e][k].st = "llm"
        /\ tasks[e][k].kind = "update"
        /\ Len(tasks[e][k].sent) = 4
        /\ tasks[e][k].sent[2].role = "user"
        /\ tasks[e][k].sent[3].role = "assistant"
        /\ tasks[e][k].sent[4].role = "user"

\* C36: a delivery that passes the other checks and carries the bot's id in
\* object_attributes.reviewer_ids passes the reviewer check, also when its
\* reviewers list is empty or absent; one that names the bot neither there
\* nor in reviewers is rejected.
C36_ReviewerIds ==
    \A e \in Events :
        LET g == event[e].gate
        IN (/\ Returned(e)
            /\ g.bot = BotId
            /\ GatesPass([g EXCEPT !.reviewer_ids = {BotId}])
            /\ g.action \in ReviewActions
            /\ g.reviewer_ids = {})
           => /\ BotId \in g.attr_reviewer_ids => Entered(e)
              /\ BotId \notin g.attr_reviewer_ids \cup g.reviewers => ~Entered(e)

\* C37: when a coordinator resumes from the gather no result is an
\* exception: the error count is 0, the total reviewed is the number of
\* eligible files, and the approve step is taken only when every eligible
\* file's pipeline returned true.
C37_NoErrorCount ==
    \A e \in Events :
        (coord[e].branch = "reviewed" /\ GatherDone(tasks[e]))
        => /\ \A k \in 1..Len(tasks[e]) : tasks[e][k].result \in {RTrue, RFalse}
           /\ error_count(Results(tasks[e])) = 0
           /\ total_reviewed(Results(tasks[e])) = Cardinality(Eligible(e))
           /\ total_reviewed(Results(tasks[e])) > 0
           /\ coord[e].approveInvoked
                => \A k \in 1..Len(tasks[e]) : tasks[e][k].result = RTrue

\* a run has returned without approving: a call raised in one pipeline,
\* which returned false, and the other pipelines returned true
C37_Witness ==
    \E e \in Events : \E j \in 1..Len(tasks[e]) :
        /\ coord[e].pc = "done"
        /\ Len(tasks[e]) >= 2
        /\ tasks[e][j].faulted
        /\ tasks[e][j].result = RFalse
        /\ \A k \in 1..Len(tasks[e]) : k # j => tasks[e][k].result = RTrue
        /\ ~coord[e].approveInvoked

\* C38: whenever the stored status of a review is approved, the merge
\* request has been approved on the host.
C38_ApprovedMeansApproved ==
    \A k \in 1..Len(db.reviews) :
        db.reviews[k].status = APPROVED
        => db.reviews[k].merge_request_id \in host.approved

\* C39: every file discussion on the host has a Discussion row that
\* carries its id and its file path.
C39_DiscussionHasRow ==
    \A d \in DOMAIN host.discussions :
        host.discussions[d].kind = "file"
        => \E r \in db.discussions :
              /\ r.discussion_id = d
              /\ r.file_path = host.discussions[d].file_path

\* the discussion of a finished pipeline is resolved on the host: the one
\* it created, the one it updated, or the one it found resolved
TaskDiscussionResolved(e, k) ==
    LET t == tasks[e][k]
    IN IF t.kind = "create"
       THEN /\ NewDiscussionId(e, k) \in DOMAIN host.discussions
            /\ host.discussions[NewDiscussionId(e, k)].resolved
       ELSE IF t.kind = "update"
       THEN /\ t.discussion_id \in DOMAIN host.discussions
            /\ host.discussions[t.discussion_id].resolved
       ELSE \E d \in DOMAIN host.discussions :
               /\ host.discussions[d].mr = event[e].mr
               /\ host.discussions[d].file_path = t.change.new_path
               /\ host.discussions[d].resolved

\* C40: a pipeline that returned true has its discussion resolved on the
\* host, a resolve call is made only for an approved verdict, and when the
\* coordinator took the approve step the discussion of every file of the
\* batch is resolved on the host.
C40_ApprovedMeansResolved ==
    \A e \in Events : \A k \in 1..Len(tasks[e]) :
        tasks[e][k].st = "done"
        => /\ tasks[e][k].result = RTrue => TaskDiscussionResolved(e, k)
           /\ tasks[e][k].resolveCalls > 0 => tasks[e][k].verdict.approved
           /\ coord[e].approveInvoked => TaskDiscussionResolved(e, k)

====
